---- MODULE Spec2Model ----
(***************************************************************************)
(* Phoneme alignment and IPA normalisation of ling-app (ml/src/ipa), with  *)
(* the ARPAbet conversion, the confusion tracker and the API handler.      *)
(*                                                                         *)
(* A Python str is modelled as a sequence of characters; a character is a  *)
(* TLA+ string holding an ASCII name of the code point:                    *)
(*   "e" "k" "g" "a" ...  the Latin letters themselves                     *)
(*   "acute"     U+0301 combining acute accent   (combining class 230)     *)
(*   "tie"       U+0361 combining double inverted breve (class 234)        *)
(*   "e_acute"   U+00E9 (canonically e + U+0301)                           *)
(*   "g_acute"   U+01F5 (canonically g + U+0301)                           *)
(*   "ipa_g"     U+0261 script g                                           *)
(*   "len"       U+02D0 length mark        "colon"   U+003A                *)
(*   "half_len"  U+02D1                    "asp"     U+02B0                *)
(*   "stress1"   U+02C8 primary stress     "stress2" U+02CC secondary      *)
(*   "bar"       U+007C |   "dbar" U+2016   "undertie" U+203F              *)
(*   "schwar"    U+025A     "rev_eps_r" U+025D                             *)
(*   "schwa"     U+0259     "rev_eps"   U+025C    "turned_r" U+0279        *)
(*   "sp"        U+0020 space              "dash"    U+002D hyphen-minus   *)
(*   "jamo_g"    U+1100 Hangul choseong kiyeok                              *)
(*   "jamo_a"    U+1161 Hangul jungseong a                                  *)
(*   "syl_ga"    U+AC00 Hangul syllable ga (canonically U+1100 U+1161)      *)
(*   "theta" "eth" "esh" "ezh" "eng" "small_i" "upsilon" "epsilon"         *)
(*   "open_o" "ash" "script_a" "turned_v"   the IPA letters so named       *)
(* A phoneme token is such a sequence too; a list of tokens is a sequence  *)
(* of sequences.  Similarity scores are kept in tenths (1.0 is 10).        *)
(***************************************************************************)
EXTENDS Integers, Sequences, FiniteSets, TLC

VARIABLES
    keep_stress,    \* IPANormalizer.keep_stress
    keep_length,    \* IPANormalizer.keep_length
    npc,            \* position of the normalizer caller
    ipa_string,     \* argument of normalize / extract_phonemes
    normalized,     \* normalize(ipa_string)
    renormalized,   \* normalize(normalized)
    phonemes,       \* extract_phonemes(ipa_string)
    plain_normalized,   \* normalize(ipa_string without its tie bars)
    plain_phonemes,     \* extract_phonemes(ipa_string without its tie bars)
    spc,            \* position of the similarity caller
    p1, p2,         \* arguments of phoneme_similarity
    similarity,     \* its return value, in tenths
    pc,             \* position inside align / _needleman_wunsch
    audio_ipa,      \* arguments of align
    text_ipa,
    seq1, seq2,     \* expected and actual token lists
    dp,             \* the DP table, dp[i][j]
    i, j,           \* traceback cursor
    alignment,      \* list of <<expected, actual, match_type>>
    apc,            \* position of the caller of arpabet_ipa
    arpabet,        \* argument of arpabet_to_ipa
    ipa,            \* its return value
    phones,         \* argument of arpabet_sequence_to_ipa
    ipa_phones,     \* its return value
    confusion_matrix,   \* PhonemeConfusionTracker.confusion_matrix
    recorded,       \* every tuple passed to record_alignment so far
    stats_phoneme,  \* argument of the last get_phoneme_stats
    stats,          \* its return value
    summary,        \* return value of the last get_summary
    call_pc,        \* per concurrent caller of align: position in the call,
    call_audio_ipa, \* its arguments
    call_text_ipa,
    call_seq1,      \* and its locals
    call_seq2,
    call_dp,
    call_i,
    call_j,
    call_alignment,
    whisper_converter,  \* module globals of api/routes.py
    gruut_converter,
    aligner,
    audio_fetcher,
    stt_transcriber,
    hpc,            \* position inside analyze_pronunciation
    fetched_ipa,    \* its locals audio_ipa and expected_ipa
    expected_ipa,
    response        \* the PronunciationResponse it returns

normVars == <<npc, ipa_string, normalized, renormalized, phonemes,
              plain_normalized, plain_phonemes>>
simVars == <<spc, p1, p2, similarity>>
alignVars == <<pc, audio_ipa, text_ipa, seq1, seq2, dp, i, j, alignment>>
arpaVars == <<apc, arpabet, ipa, phones, ipa_phones>>
trackVars == <<confusion_matrix, recorded, stats_phoneme, stats, summary>>
callVars == <<call_pc, call_audio_ipa, call_text_ipa, call_seq1, call_seq2,
              call_dp, call_i, call_j, call_alignment>>
apiVars == <<whisper_converter, gruut_converter, aligner, audio_fetcher,
             stt_transcriber, hpc, fetched_ipa, expected_ipa, response>>
otherVars == <<arpaVars, trackVars, callVars, apiVars>>
vars == <<keep_stress, keep_length, normVars, simVars, alignVars, otherVars>>

(***************************************************************************)
(* Bounds of the model.                                                    *)
(***************************************************************************)
MaxStrLen == 3        \* longest raw string given to normalize
MaxIpaLen == 2        \* longest raw string given to align
MaxSeqLen == 2        \* longest token list given to _needleman_wunsch
MaxMarks == 1         \* most stress (length) marks before (after) a core

RECURSIVE StringsUpTo(_, _)
StringsUpTo(chars, n) ==
    IF n = 0 THEN {<<>>}
    ELSE LET shorter == StringsUpTo(chars, n - 1)
         IN shorter \cup {Append(s, c) : s \in shorter, c \in chars}

(***************************************************************************)
(* Python str helpers.                                                     *)
(***************************************************************************)
\* str.replace(old, new) for a one-character old
RECURSIVE Replace(_, _, _)
Replace(s, old, new) ==
    IF s = <<>> THEN <<>>
    ELSE (IF Head(s) = old THEN new ELSE <<Head(s)>>) \o Replace(Tail(s), old, new)

RECURSIVE LStrip(_, _)
LStrip(s, chars) ==
    IF s # <<>> /\ Head(s) \in chars THEN LStrip(Tail(s), chars) ELSE s

RECURSIVE RStrip(_, _)
RStrip(s, chars) ==
    IF s # <<>> /\ s[Len(s)] \in chars
    THEN RStrip(SubSeq(s, 1, Len(s) - 1), chars)
    ELSE s

Whitespace == {"sp"}

\* ' '.join(s.split()): runs of whitespace become one space, ends trimmed
RECURSIVE JoinSplit(_, _, _)
JoinSplit(s, out, pending) ==
    IF s = <<>> THEN out
    ELSE IF Head(s) \in Whitespace
         THEN JoinSplit(Tail(s), out, out # <<>>)
         ELSE JoinSplit(Tail(s),
                        (IF pending THEN out \o <<"sp">> ELSE out) \o <<Head(s)>>,
                        FALSE)

(***************************************************************************)
(* unicodedata: combining classes and NFC over the alphabet.               *)
(***************************************************************************)
Combining(c) ==
    CASE c = "acute" -> 230
      [] c = "tie" -> 234
      [] OTHER -> 0

Decomposition(c) ==
    CASE c = "e_acute" -> <<"e", "acute">>
      [] c = "g_acute" -> <<"g", "acute">>
      [] c = "syl_ga" -> <<"jamo_g", "jamo_a">>
      [] OTHER -> <<c>>

\* the primary composite of a starter and the character after it, or ""
\* when there is none
Composite(s, c) ==
    CASE s = "e" /\ c = "acute" -> "e_acute"
      [] s = "g" /\ c = "acute" -> "g_acute"
      [] s = "jamo_g" /\ c = "jamo_a" -> "syl_ga"
      [] OTHER -> ""

RECURSIVE Decompose(_)
Decompose(s) ==
    IF s = <<>> THEN <<>> ELSE Decomposition(Head(s)) \o Decompose(Tail(s))

\* canonical ordering: marks of one run sorted by class, stably
RECURSIVE CanonicalOrder(_)
CanonicalOrder(s) ==
    IF \E k \in 1..(Len(s) - 1) :
           Combining(s[k + 1]) # 0 /\ Combining(s[k]) > Combining(s[k + 1])
    THEN LET k == CHOOSE k \in 1..(Len(s) - 1) :
                      Combining(s[k + 1]) # 0 /\ Combining(s[k]) > Combining(s[k + 1])
         IN CanonicalOrder([s EXCEPT ![k] = s[k + 1], ![k + 1] = s[k]])
    ELSE s

\* canonical composition: out is the text composed so far, starter the index
\* in out of the last starter (0: none), last the class of the last character
\* appended after it (-1: the starter itself)
RECURSIVE ComposeFrom(_, _, _, _)
ComposeFrom(s, out, starter, last) ==
    IF s = <<>> THEN out
    ELSE LET c == Head(s)
             cc == Combining(c)
             comp == IF starter > 0 /\ last < cc
                     THEN Composite(out[starter], c) ELSE ""
         IN IF comp # ""
            THEN ComposeFrom(Tail(s), [out EXCEPT ![starter] = comp], starter, last)
            ELSE IF cc = 0
                 THEN ComposeFrom(Tail(s), Append(out, c), Len(out) + 1, -1)
                 ELSE ComposeFrom(Tail(s), Append(out, c), starter, cc)

NFC(s) == ComposeFrom(CanonicalOrder(Decompose(s)), <<>>, 0, -1)

(***************************************************************************)
(* IPANormalizer (normalizer.py).                                          *)
(***************************************************************************)
TIE_BAR == "tie"

PROSODIC_MARKERS == {"dbar", "bar", "undertie"}

\* the keys 'U+0261' and 'U+02D0' of the dict, in its order.  Lines 34-35 of
\* the file read as one more key, a text of 47 characters (a triple-quoted
\* string); no string of the bounded alphabet contains it.
CHAR_MAPPINGS == << <<"ipa_g", <<"g">> >>, <<"len", <<"colon">> >> >>

\* the table with the expansion of the first entry in both entries
R_COLORED_VOWELS_same ==
    << <<"schwar", <<"schwa", "turned_r">> >>,
       <<"rev_eps_r", <<"schwa", "turned_r">> >> >>

R_COLORED_VOWELS ==
    << <<"schwar", <<"schwa", "turned_r">> >>,
       <<"rev_eps_r", <<"rev_eps", "turned_r">> >> >>

\* U+0300 .. U+0362
COMBINING_MARKS == {"acute", "tie"}

MODIFIER_LETTERS == {"len", "half_len", "asp"}

STRESS_MARKERS == {"stress1", "stress2"}

RECURSIVE RemoveAll(_, _)
RemoveAll(s, chars) ==
    IF s = <<>> THEN <<>>
    ELSE (IF Head(s) \in chars THEN <<>> ELSE <<Head(s)>>) \o RemoveAll(Tail(s), chars)

\* for old, new in table.items(): result = result.replace(old, new)
RECURSIVE ReplaceEach(_, _)
ReplaceEach(s, table) ==
    IF table = <<>> THEN s
    ELSE ReplaceEach(Replace(s, Head(table)[1], Head(table)[2]), Tail(table))

\* Step 1: Unicode NFC normalization
NormStep1(s) == NFC(s)

\* Step 2: remove tie bars
NormStep2(s) == Replace(s, TIE_BAR, <<>>)

\* Step 3 with the double bar as the only prosodic marker
NormStep3DoubleBarOnly(s) == RemoveAll(s, {"dbar"})

\* Step 3: remove prosodic markers
NormStep3(s) == RemoveAll(s, PROSODIC_MARKERS)

\* Step 4: apply character mappings
NormStep4(s) == ReplaceEach(s, CHAR_MAPPINGS)

\* Step 5: expand r-colored vowels
NormStep5(s) == ReplaceEach(s, R_COLORED_VOWELS)

\* Step 6: optionally remove stress markers
NormStep6(s, ks) == IF ~ks THEN RemoveAll(s, STRESS_MARKERS) ELSE s

\* Step 7: optionally remove length markers
NormStep7(s, kl) == IF ~kl THEN RemoveAll(s, {"len", "colon"}) ELSE s

\* Step 8: normalize whitespace
NormStep8(s) == JoinSplit(s, <<>>, FALSE)

normalize(s, ks, kl) ==
    IF s = <<>> THEN <<>>
    ELSE NormStep8(NormStep7(NormStep6(
             NormStep5(NormStep4(NormStep3(NormStep2(NormStep1(s))))), ks), kl))

is_combining(char) ==
    \/ Combining(char) # 0
    \/ char \in COMBINING_MARKS
    \/ char \in MODIFIER_LETTERS

\* the loop with a stress marker that replaces current_phoneme without
\* saving it
RECURSIVE ExtractLoopNoFlush(_, _, _)
ExtractLoopNoFlush(s, list, current) ==
    IF s = <<>>
    THEN IF current # <<>> THEN Append(list, current) ELSE list
    ELSE LET char == Head(s)
             rest == Tail(s)
         IN IF char \in Whitespace
            THEN IF current # <<>>
                 THEN ExtractLoopNoFlush(rest, Append(list, current), <<>>)
                 ELSE ExtractLoopNoFlush(rest, list, current)
            ELSE IF is_combining(char)
            THEN ExtractLoopNoFlush(rest, list, Append(current, char))
            ELSE IF char \in STRESS_MARKERS
            THEN ExtractLoopNoFlush(rest, list, <<char>>)
            ELSE IF current # <<>> /\ ~(Len(current) = 1 /\ current[1] \in STRESS_MARKERS)
                 THEN ExtractLoopNoFlush(rest, Append(list, current), <<char>>)
                 ELSE ExtractLoopNoFlush(rest, list, Append(current, char))

\* the loop with a mark or modifier that is skipped when current_phoneme is
\* empty
RECURSIVE ExtractLoopDropLeading(_, _, _)
ExtractLoopDropLeading(s, list, current) ==
    IF s = <<>>
    THEN IF current # <<>> THEN Append(list, current) ELSE list
    ELSE LET char == Head(s)
             rest == Tail(s)
         IN IF char \in Whitespace
            THEN IF current # <<>>
                 THEN ExtractLoopDropLeading(rest, Append(list, current), <<>>)
                 ELSE ExtractLoopDropLeading(rest, list, current)
            ELSE IF is_combining(char)
            THEN IF current # <<>>
                 THEN ExtractLoopDropLeading(rest, list, Append(current, char))
                 ELSE ExtractLoopDropLeading(rest, list, current)
            ELSE IF char \in STRESS_MARKERS
            THEN IF current # <<>>
                 THEN ExtractLoopDropLeading(rest, Append(list, current), <<char>>)
                 ELSE ExtractLoopDropLeading(rest, list, <<char>>)
            ELSE IF current # <<>> /\ ~(Len(current) = 1 /\ current[1] \in STRESS_MARKERS)
                 THEN ExtractLoopDropLeading(rest, Append(list, current), <<char>>)
                 ELSE ExtractLoopDropLeading(rest, list, Append(current, char))

\* the loop with a base symbol that closes current_phoneme also when it is a
\* stress marker
RECURSIVE ExtractLoopStressAlone(_, _, _)
ExtractLoopStressAlone(s, list, current) ==
    IF s = <<>>
    THEN IF current # <<>> THEN Append(list, current) ELSE list
    ELSE LET char == Head(s)
             rest == Tail(s)
         IN IF char \in Whitespace
            THEN IF current # <<>>
                 THEN ExtractLoopStressAlone(rest, Append(list, current), <<>>)
                 ELSE ExtractLoopStressAlone(rest, list, current)
            ELSE IF is_combining(char)
            THEN ExtractLoopStressAlone(rest, list, Append(current, char))
            ELSE IF char \in STRESS_MARKERS
            THEN IF current # <<>>
                 THEN ExtractLoopStressAlone(rest, Append(list, current), <<char>>)
                 ELSE ExtractLoopStressAlone(rest, list, <<char>>)
            ELSE IF current # <<>>
                 THEN ExtractLoopStressAlone(rest, Append(list, current), <<char>>)
                 ELSE ExtractLoopStressAlone(rest, list, Append(current, char))

\* the for loop of extract_phonemes over the rest s of the normalized string,
\* with the list built so far and current_phoneme
RECURSIVE ExtractLoop(_, _, _)
ExtractLoop(s, list, current) ==
    IF s = <<>>
    THEN IF current # <<>> THEN Append(list, current) ELSE list
    ELSE LET char == Head(s)
             rest == Tail(s)
         IN IF char \in Whitespace
            THEN IF current # <<>>
                 THEN ExtractLoop(rest, Append(list, current), <<>>)
                 ELSE ExtractLoop(rest, list, current)
            ELSE IF is_combining(char)
            THEN ExtractLoop(rest, list, Append(current, char))
            ELSE IF char \in STRESS_MARKERS
            THEN IF current # <<>>
                 THEN ExtractLoop(rest, Append(list, current), <<char>>)
                 ELSE ExtractLoop(rest, list, <<char>>)
            ELSE IF current # <<>> /\ ~(Len(current) = 1 /\ current[1] \in STRESS_MARKERS)
                 THEN ExtractLoop(rest, Append(list, current), <<char>>)
                 ELSE ExtractLoop(rest, list, Append(current, char))

extract_phonemes(s, ks, kl) ==
    LET norm == normalize(s, ks, kl)
    IN IF norm = <<>> THEN <<>> ELSE ExtractLoop(norm, <<>>, <<>>)

(***************************************************************************)
(* Idle values of the groups of variables.                                *)
(***************************************************************************)
NormIdle ==
    /\ npc = "idle"
    /\ ipa_string = <<>>
    /\ normalized = <<>>
    /\ renormalized = <<>>
    /\ phonemes = <<>>
    /\ plain_normalized = <<>>
    /\ plain_phonemes = <<>>

SimIdle ==
    /\ spc = "idle"
    /\ p1 = <<>>
    /\ p2 = <<>>
    /\ similarity = 0

AlignIdle ==
    /\ pc = "idle"
    /\ audio_ipa = <<>>
    /\ text_ipa = <<>>
    /\ seq1 = <<>>
    /\ seq2 = <<>>
    /\ dp = <<>>
    /\ i = 0
    /\ j = 0
    /\ alignment = <<>>

ArpaIdle ==
    /\ apc = "idle"
    /\ arpabet = <<>>
    /\ ipa = <<>>
    /\ phones = <<>>
    /\ ipa_phones = <<>>

\* a tracker before its construction
TrackIdle ==
    /\ confusion_matrix = <<>>
    /\ recorded = <<>>
    /\ stats_phoneme = <<>>
    /\ stats = <<>>
    /\ summary = <<>>

\* the concurrent callers of one shared PhonemeAligner
Callers == {"first", "second"}

CallIdle ==
    /\ call_pc = [c \in Callers |-> "idle"]
    /\ call_audio_ipa = [c \in Callers |-> <<>>]
    /\ call_text_ipa = [c \in Callers |-> <<>>]
    /\ call_seq1 = [c \in Callers |-> <<>>]
    /\ call_seq2 = [c \in Callers |-> <<>>]
    /\ call_dp = [c \in Callers |-> <<>>]
    /\ call_i = [c \in Callers |-> 0]
    /\ call_j = [c \in Callers |-> 0]
    /\ call_alignment = [c \in Callers |-> <<>>]

\* Python's None where a record or a list may stand instead
None == <<>>

\* api/routes.py as imported: every global is None, no request is running
ApiIdle ==
    /\ whisper_converter = "None"
    /\ gruut_converter = "None"
    /\ aligner = "None"
    /\ audio_fetcher = "None"
    /\ stt_transcriber = "None"
    /\ hpc = "idle"
    /\ fetched_ipa = <<>>
    /\ expected_ipa = <<>>
    /\ response = None

(***************************************************************************)
(* SpecNorm: a caller of IPANormalizer.  The instance is constructed with  *)
(* any flags; the caller normalizes a raw string, normalizes the result    *)
(* again, tokenizes the raw string, and normalizes and tokenizes the raw   *)
(* string written without tie bars.                                        *)
(***************************************************************************)
NormChars ==
    {"e", "acute", "e_acute", "ipa_g", "tie", "bar", "len", "asp",
     "stress1", "sp", "schwar", "dash", "jamo_g", "jamo_a"}

\* the strings of the scenarios: 'ˈhɛloʊ', 'iː', 'dʒʌmp' with and without
\* its tie bar
NormScenarios ==
    {<<"stress1", "h", "epsilon", "l", "o", "upsilon">>,
     <<"i", "len">>,
     <<"d", "tie", "ezh", "turned_v", "m", "p">>,
     <<"d", "ezh", "turned_v", "m", "p">>}

NormInit ==
    /\ keep_stress \in BOOLEAN
    /\ keep_length \in BOOLEAN
    /\ npc = "start"
    /\ ipa_string \in StringsUpTo(NormChars, MaxStrLen) \cup NormScenarios
    /\ normalized = <<>>
    /\ renormalized = <<>>
    /\ phonemes = <<>>
    /\ plain_normalized = <<>>
    /\ plain_phonemes = <<>>
    /\ SimIdle
    /\ AlignIdle
    /\ ArpaIdle
    /\ TrackIdle
    /\ CallIdle
    /\ ApiIdle

Normalize ==
    /\ npc = "start"
    /\ normalized' = normalize(ipa_string, keep_stress, keep_length)
    /\ npc' = "normalized"
    /\ UNCHANGED <<otherVars, keep_stress, keep_length, ipa_string, renormalized, phonemes,
                   plain_normalized, plain_phonemes, simVars, alignVars>>

Renormalize ==
    /\ npc = "normalized"
    /\ renormalized' = normalize(normalized, keep_stress, keep_length)
    /\ npc' = "renormalized"
    /\ UNCHANGED <<otherVars, keep_stress, keep_length, ipa_string, normalized, phonemes,
                   plain_normalized, plain_phonemes, simVars, alignVars>>

ExtractPhonemes ==
    /\ npc = "renormalized"
    /\ phonemes' = extract_phonemes(ipa_string, keep_stress, keep_length)
    /\ npc' = "extracted"
    /\ UNCHANGED <<otherVars, keep_stress, keep_length, ipa_string, normalized, renormalized,
                   plain_normalized, plain_phonemes, simVars, alignVars>>

\* the caller normalizes and tokenizes the spelling without tie bars
WithoutTieBars ==
    /\ npc = "extracted"
    /\ LET plain == Replace(ipa_string, "tie", <<>>)
       IN /\ plain_normalized' = normalize(plain, keep_stress, keep_length)
          /\ plain_phonemes' = extract_phonemes(plain, keep_stress, keep_length)
    /\ npc' = "compared"
    /\ UNCHANGED <<otherVars, keep_stress, keep_length, ipa_string, normalized, renormalized,
                   phonemes, simVars, alignVars>>

NormNext == Normalize \/ Renormalize \/ ExtractPhonemes \/ WithoutTieBars

SpecNorm == NormInit /\ [][NormNext]_vars

(***************************************************************************)
(* PhonemeAligner.phoneme_similarity (aligner.py), scores in tenths.       *)
(***************************************************************************)
similar_pairs ==
    << <<<<"p">>, <<"b">>>>, <<<<"t">>, <<"d">>>>, <<<<"k">>, <<"g">>>>,
       <<<<"f">>, <<"v">>>>, <<<<"s">>, <<"z">>>>, <<<<"theta">>, <<"eth">>>>,
       <<<<"esh">>, <<"ezh">>>>,
       <<<<"m">>, <<"n">>>>, <<<<"n">>, <<"eng">>>>,
       <<<<"l">>, <<"turned_r">>>>, <<<<"r">>, <<"turned_r">>>>, <<<<"l">>, <<"r">>>>,
       <<<<"i">>, <<"small_i">>>>, <<<<"u">>, <<"upsilon">>>>,
       <<<<"e">>, <<"epsilon">>>>, <<<<"o">>, <<"open_o">>>>,
       <<<<"ash">>, <<"epsilon">>>>, <<<<"script_a">>, <<"open_o">>>>,
       <<<<"turned_v">>, <<"schwa">>>>,
       <<<<"e", "small_i">>, <<"e">>>>, <<<<"a", "small_i">>, <<"a">>>>,
       <<<<"open_o", "small_i">>, <<"open_o">>>>,
       <<<<"o", "upsilon">>, <<"o">>>>, <<<<"a", "upsilon">>, <<"a">>>> >>

\* PairMatches in the order of the table only
PairMatchesOneWay(pair, c1, c2) == c1 = pair[1] /\ c2 = pair[2]

\* the test of the for loop over similar_pairs, for one pair
PairMatches(pair, c1, c2) ==
    \/ (c1 \in {pair[1], pair[2]} /\ c2 \in {pair[1], pair[2]})
    \/ (c1 = pair[1] /\ c2 = pair[2])
    \/ (c1 = pair[2] /\ c2 = pair[1])

\* phoneme_similarity that strips stress marks before its first comparison
phoneme_similarity_stripped(a, b) ==
    LET p1_base == LStrip(a, {"stress1", "stress2"})
        p2_base == LStrip(b, {"stress1", "stress2"})
    IN IF p1_base = p2_base THEN 10
       ELSE LET p1_core == RStrip(p1_base, {"colon", "len"})
                p2_core == RStrip(p2_base, {"colon", "len"})
            IN IF p1_core = p2_core THEN 8
               ELSE IF \E k \in 1..Len(similar_pairs) :
                           PairMatches(similar_pairs[k], p1_core, p2_core)
                    THEN 5
                    ELSE 0

\* phoneme_similarity that takes two tokens for a pair of the table as soon
\* as one of them is a member of it
phoneme_similarity_either_member(a, b) ==
    IF a = b THEN 10
    ELSE LET p1_base == LStrip(a, {"stress1", "stress2"})
             p2_base == LStrip(b, {"stress1", "stress2"})
             p1_core == RStrip(p1_base, {"colon", "len"})
             p2_core == RStrip(p2_base, {"colon", "len"})
         IN IF p1_base = p2_base \/ p1_core = p2_core THEN 8
            ELSE IF \E k \in 1..Len(similar_pairs) :
                        \/ p1_core \in {similar_pairs[k][1], similar_pairs[k][2]}
                        \/ p2_core \in {similar_pairs[k][1], similar_pairs[k][2]}
                 THEN 5
                 ELSE 0

\* phoneme_similarity that looks up the table of pairs with the tokens
\* stripped of stress only
phoneme_similarity_base_pairs(a, b) ==
    IF a = b THEN 10
    ELSE LET p1_base == LStrip(a, {"stress1", "stress2"})
             p2_base == LStrip(b, {"stress1", "stress2"})
         IN IF p1_base = p2_base THEN 8
            ELSE IF RStrip(p1_base, {"colon", "len"}) = RStrip(p2_base, {"colon", "len"})
                 THEN 8
                 ELSE IF \E k \in 1..Len(similar_pairs) :
                             PairMatches(similar_pairs[k], p1_base, p2_base)
                      THEN 5
                      ELSE 0

\* phoneme_similarity without the comparison of the tokens stripped of length
phoneme_similarity_no_length(a, b) ==
    IF a = b THEN 10
    ELSE LET p1_base == LStrip(a, {"stress1", "stress2"})
             p2_base == LStrip(b, {"stress1", "stress2"})
         IN IF p1_base = p2_base THEN 8
            ELSE IF \E k \in 1..Len(similar_pairs) :
                        PairMatches(similar_pairs[k],
                                    RStrip(p1_base, {"colon", "len"}),
                                    RStrip(p2_base, {"colon", "len"}))
                 THEN 5
                 ELSE 0

phoneme_similarity(a, b) ==
    IF a = b THEN 10
    ELSE LET p1_base == LStrip(a, {"stress1", "stress2"})
             p2_base == LStrip(b, {"stress1", "stress2"})
         IN IF p1_base = p2_base THEN 8
            ELSE LET p1_core == RStrip(p1_base, {"colon", "len"})
                     p2_core == RStrip(p2_base, {"colon", "len"})
                 IN IF p1_core = p2_core THEN 8
                    ELSE IF \E k \in 1..Len(similar_pairs) :
                                PairMatches(similar_pairs[k], p1_core, p2_core)
                         THEN 5
                         ELSE 0

(***************************************************************************)
(* SpecSim: a caller of phoneme_similarity with two tokens: a core, up to  *)
(* MaxMarks stress marks before it and up to MaxMarks length marks after.  *)
(***************************************************************************)
SimCores ==
    {<<>>, <<"p">>, <<"b">>, <<"m">>, <<"n">>, <<"eng">>, <<"e">>,
     <<"e", "small_i">>, <<"dash">>, <<"t">>, <<"t", "asp">>}

\* the tokens made of a core of the set cores and its marks
Marked(cores) ==
    {pre \o core \o suf :
        pre \in StringsUpTo({"stress1", "stress2"}, MaxMarks),
        core \in cores,
        suf \in StringsUpTo({"len", "colon"}, MaxMarks)}

SimTokens == Marked(SimCores)

\* the two members of every entry of similar_pairs, in both orders, each
\* with its marks
ConfusionInputs ==
    UNION {Marked({similar_pairs[k][1]}) \X Marked({similar_pairs[k][2]})
           \cup Marked({similar_pairs[k][2]}) \X Marked({similar_pairs[k][1]}) :
           k \in 1..Len(similar_pairs)}

SimInit ==
    /\ keep_stress = TRUE
    /\ keep_length = TRUE
    /\ NormIdle
    /\ spc = "start"
    /\ \E input \in (SimTokens \X SimTokens) \cup ConfusionInputs :
           /\ p1 = input[1]
           /\ p2 = input[2]
    /\ similarity = 0
    /\ AlignIdle
    /\ ArpaIdle
    /\ TrackIdle
    /\ CallIdle
    /\ ApiIdle

PhonemeSimilarity ==
    /\ spc = "start"
    /\ similarity' = phoneme_similarity(p1, p2)
    /\ spc' = "returned"
    /\ UNCHANGED <<otherVars, keep_stress, keep_length, normVars, p1, p2, alignVars>>

SimNext == PhonemeSimilarity

SpecSim == SimInit /\ [][SimNext]_vars

(***************************************************************************)
(* PhonemeAligner._needleman_wunsch (aligner.py).                          *)
(***************************************************************************)
MATCH_SCORE == 2
SIMILAR_SCORE == 1
MISMATCH_PENALTY == -1
GAP_PENALTY == -2

\* the value '-' that stands for the missing side of a delete or an insert
PLACEHOLDER == <<"dash">>

\* score of the diagonal step for a similarity (in tenths)
\* the score with a mismatch that costs a gap on top of its penalty
DiagScoreHarsh(sim) ==
    IF sim >= 8 THEN MATCH_SCORE
    ELSE IF sim >= 5 THEN SIMILAR_SCORE
    ELSE MISMATCH_PENALTY + 2 * GAP_PENALTY

\* the score with the match tier starting at the similar tier
DiagScoreLoose(sim) ==
    IF sim >= 5 THEN MATCH_SCORE ELSE MISMATCH_PENALTY

DiagScore(sim) ==
    IF sim >= 8 THEN MATCH_SCORE
    ELSE IF sim >= 5 THEN SIMILAR_SCORE
    ELSE MISMATCH_PENALTY

\* DiagType with the threshold of the similar tier
DiagTypeLoose(sim) == IF sim >= 5 THEN "match" ELSE "substitute"

\* match_type of a diagonal step
DiagType(sim) == IF sim >= 8 THEN "match" ELSE "substitute"

Max3(x, y, z) ==
    IF x >= y /\ x >= z THEN x ELSE IF y >= z THEN y ELSE z

\* dp after "Initialize DP table" and "Initialize first row and column"
InitTable(m, n) ==
    [a \in 0..m |-> [b \in 0..n |->
        IF b = 0 THEN a * GAP_PENALTY
        ELSE IF a = 0 THEN b * GAP_PENALTY
        ELSE 0]]

\* CellValue without the "Match/mismatch" transition
CellValueGapsOnly(d, s1, s2, a, b) ==
    Max3(d[a - 1][b] + GAP_PENALTY,
         d[a - 1][b] + GAP_PENALTY,
         d[a][b - 1] + GAP_PENALTY)

\* CellValue without the "Insert to seq1" transition
CellValueNoInsert(d, s1, s2, a, b) ==
    Max3(d[a - 1][b - 1] + DiagScore(phoneme_similarity(s1[a], s2[b])),
         d[a - 1][b] + GAP_PENALTY,
         d[a - 1][b] + GAP_PENALTY)

\* dp[i][j] = max(scores) of the fill loop
CellValue(d, s1, s2, a, b) ==
    Max3(d[a - 1][b - 1] + DiagScore(phoneme_similarity(s1[a], s2[b])),
         d[a - 1][b] + GAP_PENALTY,
         d[a][b - 1] + GAP_PENALTY)

\* the two nested fill loops, from cell (a, b) on, row by row
RECURSIVE FillFrom(_, _, _, _, _)
FillFrom(d, s1, s2, a, b) ==
    IF a > Len(s1) THEN d
    ELSE IF b > Len(s2) THEN FillFrom(d, s1, s2, a + 1, 1)
    ELSE FillFrom([d EXCEPT ![a][b] = CellValue(d, s1, s2, a, b)], s1, s2, a, b + 1)

FilledTable(s1, s2) == FillFrom(InitTable(Len(s1), Len(s2)), s1, s2, 1, 1)

\* TracebackStep whose diagonal step leaves j as it is
TracebackStepKeepJ(d, s1, s2, a, b) ==
    IF a > 0 /\ b > 0 /\
       d[a][b] = d[a - 1][b - 1] + DiagScore(phoneme_similarity(s1[a], s2[b]))
    THEN [ops |-> << <<s1[a], s2[b], DiagType(phoneme_similarity(s1[a], s2[b]))>> >>,
          i |-> a - 1, j |-> b]
    ELSE IF a > 0 /\ d[a][b] = d[a - 1][b] + GAP_PENALTY
    THEN [ops |-> << <<s1[a], PLACEHOLDER, "delete">> >>, i |-> a - 1, j |-> b]
    ELSE IF b > 0 /\ d[a][b] = d[a][b - 1] + GAP_PENALTY
    THEN [ops |-> << <<PLACEHOLDER, s2[b], "insert">> >>, i |-> a, j |-> b - 1]
    ELSE [ops |-> (IF a > 0 THEN << <<s1[a], PLACEHOLDER, "delete">> >> ELSE <<>>)
                  \o (IF b > 0 THEN << <<PLACEHOLDER, s2[b], "insert">> >> ELSE <<>>),
          i |-> IF a > 0 THEN a - 1 ELSE a,
          j |-> IF b > 0 THEN b - 1 ELSE b]

\* TracebackStep that tries the two gap transitions before the diagonal
TracebackStepGapFirst(d, s1, s2, a, b) ==
    IF a > 0 /\ d[a][b] = d[a - 1][b] + GAP_PENALTY
    THEN [ops |-> << <<s1[a], PLACEHOLDER, "delete">> >>, i |-> a - 1, j |-> b]
    ELSE IF b > 0 /\ d[a][b] = d[a][b - 1] + GAP_PENALTY
    THEN [ops |-> << <<PLACEHOLDER, s2[b], "insert">> >>, i |-> a, j |-> b - 1]
    ELSE IF a > 0 /\ b > 0 /\
            d[a][b] = d[a - 1][b - 1] + DiagScore(phoneme_similarity(s1[a], s2[b]))
    THEN [ops |-> << <<s1[a], s2[b], DiagType(phoneme_similarity(s1[a], s2[b]))>> >>,
          i |-> a - 1, j |-> b - 1]
    ELSE [ops |-> (IF a > 0 THEN << <<s1[a], PLACEHOLDER, "delete">> >> ELSE <<>>)
                  \o (IF b > 0 THEN << <<PLACEHOLDER, s2[b], "insert">> >> ELSE <<>>),
          i |-> IF a > 0 THEN a - 1 ELSE a,
          j |-> IF b > 0 THEN b - 1 ELSE b]

\* TracebackStep with a "Delete from seq1" branch that leaves i as it is
TracebackStepKeepI(d, s1, s2, a, b) ==
    IF a > 0 /\ b > 0 /\
       d[a][b] = d[a - 1][b - 1] + DiagScore(phoneme_similarity(s1[a], s2[b]))
    THEN [ops |-> << <<s1[a], s2[b], DiagType(phoneme_similarity(s1[a], s2[b]))>> >>,
          i |-> a - 1, j |-> b - 1]
    ELSE IF a > 0 /\ d[a][b] = d[a - 1][b] + GAP_PENALTY
    THEN [ops |-> << <<s1[a], PLACEHOLDER, "delete">> >>, i |-> a, j |-> b]
    ELSE [ops |-> << <<PLACEHOLDER, s2[b], "insert">> >>, i |-> a, j |-> b - 1]

\* one iteration of the traceback loop at cell (a, b), a > 0 or b > 0: the
\* tuples it appends and the cell it moves to
TracebackStep(d, s1, s2, a, b) ==
    IF a > 0 /\ b > 0 /\
       d[a][b] = d[a - 1][b - 1] + DiagScore(phoneme_similarity(s1[a], s2[b]))
    THEN [ops |-> << <<s1[a], s2[b], DiagType(phoneme_similarity(s1[a], s2[b]))>> >>,
          i |-> a - 1, j |-> b - 1]
    ELSE IF a > 0 /\ d[a][b] = d[a - 1][b] + GAP_PENALTY
    THEN [ops |-> << <<s1[a], PLACEHOLDER, "delete">> >>, i |-> a - 1, j |-> b]
    ELSE IF b > 0 /\ d[a][b] = d[a][b - 1] + GAP_PENALTY
    THEN [ops |-> << <<PLACEHOLDER, s2[b], "insert">> >>, i |-> a, j |-> b - 1]
    ELSE \* Fallback
         [ops |-> (IF a > 0 THEN << <<s1[a], PLACEHOLDER, "delete">> >> ELSE <<>>)
                  \o (IF b > 0 THEN << <<PLACEHOLDER, s2[b], "insert">> >> ELSE <<>>),
          i |-> IF a > 0 THEN a - 1 ELSE a,
          j |-> IF b > 0 THEN b - 1 ELSE b]

\* the list left in traceback order
NotReversed(list) == list

\* list.reverse()
Reversed(list) == [k \in 1..Len(list) |-> list[Len(list) + 1 - k]]

\* the traceback loop from cell (a, b) on, acc the tuples appended so far
RECURSIVE TracebackFrom(_, _, _, _, _, _)
TracebackFrom(d, s1, s2, a, b, acc) ==
    IF a = 0 /\ b = 0
    THEN acc
    ELSE LET step == TracebackStep(d, s1, s2, a, b)
         IN TracebackFrom(d, s1, s2, step.i, step.j, acc \o step.ops)

\* _needleman_wunsch(seq1, seq2) run from its first line to its return
needleman_wunsch(s1, s2) ==
    Reversed(TracebackFrom(FilledTable(s1, s2), s1, s2, Len(s1), Len(s2), <<>>))

\* align(audio_ipa, text_ipa) run from its first line to its return
align(audio, text, ks, kl) ==
    needleman_wunsch(extract_phonemes(text, ks, kl),
                     extract_phonemes(audio, ks, kl))

(***************************************************************************)
(* Spec: a PhonemeAligner constructed with either keep_stress; a caller    *)
(* runs align(audio_ipa, text_ipa) on two raw strings, or                  *)
(* _needleman_wunsch(seq1, seq2) on two token lists.                       *)
(***************************************************************************)
AlignChars == {"k", "g", "a", "stress1", "dash"}

\* the strings of tests/test_aligner.py, TestAlign, test_th_fronting and
\* test_r_colored_vowel
TestStrings ==
    {<<"k", "ash", "t">>, <<"k", "ash">>, <<"k", "ash", "t", "s">>,
     <<"theta", "small_i", "eng", "k">>, <<"s", "small_i", "eng", "k">>,
     <<"b", "rev_eps_r", "d">>, <<"f", "small_i", "eng", "k">>}

\* 'bɜɹd', the two r-colored vowels alone, a text that ends in a vowel and
\* its stressed repetition, and strings of one space, one boundary marker,
\* one combining mark
AlignScenarios ==
    {<<"b", "rev_eps", "turned_r", "d">>, <<"schwar">>, <<"rev_eps_r">>,
     <<"a", "stress1", "a">>, <<"sp">>, <<"bar">>, <<"acute">>}

AlignStrings ==
    StringsUpTo(AlignChars, MaxIpaLen) \cup TestStrings \cup AlignScenarios

NWTokens == {<<"k">>, <<"g">>, <<"a">>, <<"stress1", "k">>, <<"dash">>}

Init ==
    /\ keep_stress \in BOOLEAN
    /\ keep_length = TRUE
    /\ NormIdle
    /\ SimIdle
    /\ AlignIdle
    /\ ArpaIdle
    /\ TrackIdle
    /\ CallIdle
    /\ ApiIdle

\* Align passing the audio tokens as seq1 and the text tokens as seq2
AlignSwapped ==
    /\ pc = "idle"
    /\ \E audio \in AlignStrings, text \in AlignStrings :
          /\ audio_ipa' = audio
          /\ text_ipa' = text
          /\ seq1' = extract_phonemes(audio, keep_stress, keep_length)
          /\ seq2' = extract_phonemes(text, keep_stress, keep_length)
    /\ pc' = "align"
    /\ UNCHANGED <<otherVars, keep_stress, keep_length, normVars, simVars, dp, i, j, alignment>>

\* align(audio_ipa, text_ipa) up to the call of _needleman_wunsch
Align ==
    /\ pc = "idle"
    /\ \E audio \in AlignStrings, text \in AlignStrings :
          /\ audio_ipa' = audio
          /\ text_ipa' = text
          /\ seq1' = extract_phonemes(text, keep_stress, keep_length)
          /\ seq2' = extract_phonemes(audio, keep_stress, keep_length)
    /\ pc' = "align"
    /\ UNCHANGED <<otherVars, keep_stress, keep_length, normVars, simVars, dp, i, j, alignment>>

\* _needleman_wunsch(seq1, seq2) called on its own
NeedlemanWunsch ==
    /\ pc = "idle"
    /\ seq1' \in StringsUpTo(NWTokens, MaxSeqLen)
    /\ seq2' \in StringsUpTo(NWTokens, MaxSeqLen)
    /\ pc' = "called"
    /\ UNCHANGED <<otherVars, keep_stress, keep_length, normVars, simVars, audio_ipa, text_ipa,
                   dp, i, j, alignment>>

\* the table is initialized and filled, the traceback starts at (m, n)
FillTable ==
    /\ pc \in {"align", "called"}
    /\ dp' = FilledTable(seq1, seq2)
    /\ alignment' = <<>>
    /\ i' = Len(seq1)
    /\ j' = Len(seq2)
    /\ pc' = IF pc = "align" THEN "align_traceback" ELSE "traceback"
    /\ UNCHANGED <<otherVars, keep_stress, keep_length, normVars, simVars, audio_ipa, text_ipa,
                   seq1, seq2>>

\* one iteration of "while i > 0 or j > 0"
Traceback ==
    /\ pc \in {"align_traceback", "traceback"}
    /\ ~(i = 0 /\ j = 0)
    /\ LET step == TracebackStep(dp, seq1, seq2, i, j)
       IN /\ alignment' = alignment \o step.ops
          /\ i' = step.i
          /\ j' = step.j
    /\ UNCHANGED <<otherVars, keep_stress, keep_length, normVars, simVars, pc, audio_ipa, text_ipa,
                   seq1, seq2, dp>>

\* the loop ends: the list is reversed and returned
Return ==
    /\ pc \in {"align_traceback", "traceback"}
    /\ i = 0 /\ j = 0
    /\ alignment' = Reversed(alignment)
    /\ pc' = IF pc = "align_traceback" THEN "align_done" ELSE "done"
    /\ UNCHANGED <<otherVars, keep_stress, keep_length, normVars, simVars, audio_ipa, text_ipa,
                   seq1, seq2, dp, i, j>>

Next == Align \/ NeedlemanWunsch \/ FillTable \/ Traceback \/ Return

Spec == Init /\ [][Next]_vars

(***************************************************************************)
(* Properties of the alignment.                                            *)
(***************************************************************************)
Finished == pc \in {"align_done", "done"}

IsGap(op) == op[3] \in {"delete", "insert"}

\* the expected entries of the ops that are no insert, in order
RECURSIVE ExpectedEntries(_)
ExpectedEntries(al) ==
    IF al = <<>> THEN <<>>
    ELSE (IF Head(al)[3] # "insert" THEN <<Head(al)[1]>> ELSE <<>>)
         \o ExpectedEntries(Tail(al))

\* the actual entries of the ops that are no delete, in order
RECURSIVE ActualEntries(_)
ActualEntries(al) ==
    IF al = <<>> THEN <<>>
    ELSE (IF Head(al)[3] # "delete" THEN <<Head(al)[2]>> ELSE <<>>)
         \o ActualEntries(Tail(al))

\* C1: the returned list covers each token of both sequences exactly once and
\* in order: the expected entries of the ops other than inserts spell seq1,
\* the actual entries of the ops other than deletes spell seq2.
AlignmentCoverage ==
    Finished => /\ ExpectedEntries(alignment) = seq1
                /\ ActualEntries(alignment) = seq2

\* a finished alignment of two lists of two or more tokens that holds a gap
\* and a diagonal step
AlignmentCoverageWitness ==
    /\ Finished
    /\ Len(seq1) >= 2
    /\ Len(seq2) >= 2
    /\ \E k \in 1..Len(alignment) : IsGap(alignment[k])
    /\ \E k \in 1..Len(alignment) : ~IsGap(alignment[k])

\* score of one op as the fill loop scores its transition
OpScore(op) ==
    IF IsGap(op) THEN GAP_PENALTY
    ELSE DiagScore(phoneme_similarity(op[1], op[2]))

RECURSIVE AlignmentScore(_)
AlignmentScore(al) ==
    IF al = <<>> THEN 0 ELSE OpScore(Head(al)) + AlignmentScore(Tail(al))

\* the best score over all global alignments of s1[a..] with s2[b..], by
\* trying every first step
RECURSIVE BestScore(_, _, _, _)
BestScore(s1, s2, a, b) ==
    IF a > Len(s1) THEN (Len(s2) + 1 - b) * GAP_PENALTY
    ELSE IF b > Len(s2) THEN (Len(s1) + 1 - a) * GAP_PENALTY
    ELSE Max3(DiagScore(phoneme_similarity(s1[a], s2[b])) + BestScore(s1, s2, a + 1, b + 1),
              GAP_PENALTY + BestScore(s1, s2, a + 1, b),
              GAP_PENALTY + BestScore(s1, s2, a, b + 1))

\* C2: the scores of the ops of the returned alignment sum to dp[m][n], and
\* no global alignment of the two sequences scores more.
AlignmentOptimal ==
    Finished => /\ AlignmentScore(alignment) = dp[Len(seq1)][Len(seq2)]
                /\ AlignmentScore(alignment) = BestScore(seq1, seq2, 1, 1)

\* a finished alignment where the best script needs a gap and a substitution
AlignmentOptimalWitness ==
    /\ Finished
    /\ \E k \in 1..Len(alignment) : alignment[k][3] = "substitute"
    /\ \E k \in 1..Len(alignment) : IsGap(alignment[k])
    /\ \E k \in 1..Len(alignment) : alignment[k][3] = "match"

\* C4: align(x, x) on a string with tokens returns one match op per token,
\* each with the token of that position on both sides.
IdentityAlignment ==
    (/\ Finished
     /\ seq1 # <<>>
     /\ seq1 = seq2 \/ (pc = "align_done" /\ audio_ipa = text_ipa))
    => alignment = [k \in 1..Len(seq1) |-> <<seq1[k], seq1[k], "match">>]

\* align(x, x) returned for an x whose first two tokens are equal
IdentityAlignmentWitness ==
    /\ pc = "align_done"
    /\ audio_ipa = text_ipa
    /\ Len(seq1) >= 2
    /\ seq1[1] = seq1[2]
    /\ Len(alignment) = Len(seq1)

\* C5: with no actual tokens the result is one delete per expected token, in
\* order; with no expected tokens one insert per actual token, in order; with
\* neither, the empty list.  align(x, "") is all inserts, align("", x) all
\* deletes.
EmptySideAlignment ==
    /\ (Finished /\ seq2 = <<>>)
         => alignment = [k \in 1..Len(seq1) |-> <<seq1[k], PLACEHOLDER, "delete">>]
    /\ (Finished /\ seq1 = <<>>)
         => alignment = [k \in 1..Len(seq2) |-> <<PLACEHOLDER, seq2[k], "insert">>]
    /\ (Finished /\ seq1 = <<>> /\ seq2 = <<>>) => alignment = <<>>
    /\ (pc = "align_done" /\ text_ipa = <<>>)
         => /\ Len(alignment) = Len(seq2)
            /\ \A k \in 1..Len(alignment) : alignment[k][3] = "insert"
    /\ (pc = "align_done" /\ audio_ipa = <<>>)
         => /\ Len(alignment) = Len(seq1)
            /\ \A k \in 1..Len(alignment) : alignment[k][3] = "delete"

\* align(x, "") returned for an x of two or more tokens
EmptySideAlignmentWitness ==
    /\ pc = "align_done"
    /\ text_ipa = <<>>
    /\ Len(audio_ipa) >= 2
    /\ Len(alignment) >= 2
    /\ alignment[1][3] = "insert"

InTraceback == pc \in {"align_traceback", "traceback"}

DiagReproduces ==
    /\ i > 0
    /\ j > 0
    /\ dp[i][j] = dp[i - 1][j - 1] + DiagScore(phoneme_similarity(seq1[i], seq2[j]))

VerticalReproduces == i > 0 /\ dp[i][j] = dp[i - 1][j] + GAP_PENALTY

HorizontalReproduces == j > 0 /\ dp[i][j] = dp[i][j - 1] + GAP_PENALTY

\* one step of the walk from (m, n) to (0, 0), by the order of preference
TieBreakStep ==
    (InTraceback /\ InTraceback')
    => IF DiagReproduces
       THEN /\ <<i', j'>> = <<i - 1, j - 1>>
            /\ \E t \in {"match", "substitute"} :
                  alignment' = Append(alignment, <<seq1[i], seq2[j], t>>)
       ELSE IF VerticalReproduces
       THEN /\ <<i', j'>> = <<i - 1, j>>
            /\ alignment' = Append(alignment, <<seq1[i], PLACEHOLDER, "delete">>)
       ELSE /\ HorizontalReproduces
            /\ <<i', j'>> = <<i, j - 1>>
            /\ alignment' = Append(alignment, <<PLACEHOLDER, seq2[j], "insert">>)

\* C6: at every cell of the traceback the diagonal op is emitted when the
\* diagonal transition reproduces dp[i][j], also when a gap transition does
\* too; otherwise a delete when the vertical transition does; otherwise an
\* insert.  Expected [k, k] against actual [k] gives delete(k), match(k, k).
TracebackTieBreak ==
    /\ [][TieBreakStep]_vars
    /\ [](Finished /\ seq1 = << <<"k">>, <<"k">> >> /\ seq2 = << <<"k">> >>
          => alignment = << << <<"k">>, PLACEHOLDER, "delete">>,
                            << <<"k">>, <<"k">>, "match">> >>)

\* the traceback stands at a cell whose value the diagonal and the vertical
\* transition both reproduce, and has emitted an op already
TracebackTieBreakWitness ==
    /\ InTraceback
    /\ DiagReproduces
    /\ VerticalReproduces
    /\ alignment # <<>>

\* number of ops among the first k that consume an expected token
RECURSIVE ExpectedIndex(_, _)
ExpectedIndex(al, k) ==
    IF k = 0 THEN 0
    ELSE ExpectedIndex(al, k - 1) + (IF al[k][3] # "insert" THEN 1 ELSE 0)

\* number of ops among the first k that consume an actual token
RECURSIVE ActualIndex(_, _)
ActualIndex(al, k) ==
    IF k = 0 THEN 0
    ELSE ActualIndex(al, k - 1) + (IF al[k][3] # "delete" THEN 1 ELSE 0)

\* op k of the alignment carries the tokens its type stands for
OpClassified(al, k) ==
    LET op == al[k]
        e == ExpectedIndex(al, k)
        a == ActualIndex(al, k)
    IN CASE op[3] = "match" ->
              /\ e \in 1..Len(seq1) /\ a \in 1..Len(seq2)
              /\ op[1] = seq1[e] /\ op[2] = seq2[a]
              /\ phoneme_similarity(op[1], op[2]) >= 8
         [] op[3] = "substitute" ->
              /\ e \in 1..Len(seq1) /\ a \in 1..Len(seq2)
              /\ op[1] = seq1[e] /\ op[2] = seq2[a]
              /\ phoneme_similarity(op[1], op[2]) < 8
         [] op[3] = "delete" ->
              /\ e \in 1..Len(seq1)
              /\ op[1] = seq1[e] /\ op[2] = PLACEHOLDER
         [] op[3] = "insert" ->
              /\ a \in 1..Len(seq2)
              /\ op[1] = PLACEHOLDER /\ op[2] = seq2[a]
         [] OTHER -> FALSE

\* C7: a match op pairs two tokens of the inputs with similarity >= 0.8, a
\* substitute op two tokens with similarity < 0.8; a delete op carries an
\* expected token and the placeholder, an insert op the placeholder and an
\* actual token.
OperationClassification ==
    Finished => \A k \in 1..Len(alignment) : OpClassified(alignment, k)

\* a finished alignment with a match of two different tokens and a delete
OperationClassificationWitness ==
    /\ Finished
    /\ \E k \in 1..Len(alignment) :
          alignment[k][3] = "match" /\ alignment[k][1] # alignment[k][2]
    /\ \E k \in 1..Len(alignment) : alignment[k][3] = "delete"

(***************************************************************************)
(* Properties of the normalizer and of the similarity.                     *)
(***************************************************************************)
\* C3: normalize(normalize(s)) = normalize(s) for every string and every
\* setting of keep_stress and keep_length.
NormalizeIdempotent ==
    npc \in {"renormalized", "extracted", "compared"} => renormalized = normalized

\* C8: no token that extract_phonemes produces equals the value '-' that _needleman_wunsch
\* puts on the missing side of a delete or an insert.
PlaceholderNeverAToken ==
    npc \in {"extracted", "compared"} =>
        \A k \in 1..Len(phonemes) : phonemes[k] # PLACEHOLDER

\* C9: phoneme_similarity(a, b) = phoneme_similarity(b, a).
SimilaritySymmetric ==
    spc = "returned" => similarity = phoneme_similarity(p2, p1)

\* the similarity of two tokens of one confusion pair, the first with a stress
\* mark, the second with a length mark
SimilaritySymmetricWitness ==
    /\ spc = "returned"
    /\ similarity = 5
    /\ Head(p1) \in {"stress1", "stress2"}
    /\ p2[Len(p2)] \in {"len", "colon"}

\* C10: phoneme_similarity(a, a) = 1.0, and 1.0 is returned for identical
\* tokens only.
SimilarityReflexive ==
    spc = "returned" => (p1 = p2 <=> similarity = 10)

\* the similarity of a token with itself, the token a member of a confusion
\* pair with a stress and a length mark
SimilarityReflexiveWitness ==
    /\ spc = "returned"
    /\ p1 = p2
    /\ p1 = <<"stress1", "n", "len">>
    /\ similarity = 10

\* a token without its leading stress marks and its trailing length marks
Core(tok) == RStrip(LStrip(tok, {"stress1", "stress2"}), {"len", "colon"})

\* C11: two tokens that differ, and are equal once leading stress marks and
\* trailing length marks are removed, score 0.8, also when the stripped
\* token is a member of a pair of the confusion table.
SuprasegmentalVariants ==
    (spc = "returned" /\ p1 # p2 /\ Core(p1) = Core(p2)) => similarity = 8

\* the similarity of a stressed and a long variant of p, a member of the
\* confusion table
SuprasegmentalVariantsWitness ==
    /\ spc = "returned"
    /\ p1 = <<"stress1", "p">>
    /\ p2 = <<"p", "len">>
    /\ similarity = 8

\* the diacritics and modifier letters other than stress and length
Diacritics == {"asp", "half_len", "acute", "tie"}

\* two tokens with one base symbol that differ in their diacritics only
DiacriticVariant(a, b) ==
    /\ Core(a) # Core(b)
    /\ RemoveAll(Core(a), Diacritics) = RemoveAll(Core(b), Diacritics)
    /\ Len(RemoveAll(Core(a), Diacritics)) = 1

\* C12: two tokens with the same base symbol that differ only in attached
\* diacritics other than stress and length (t and t with aspiration) score 0.7.
DiacriticVariants ==
    (spc = "returned" /\ DiacriticVariant(p1, p2)) => similarity = 7

\* the pairs of the confusion table that the specification lists
ListedPairs ==
    {<<"p", "b">>, <<"t", "d">>, <<"k", "g">>, <<"f", "v">>, <<"s", "z">>,
     <<"theta", "eth">>, <<"esh", "ezh">>, <<"m", "n">>, <<"n", "eng">>,
     <<"l", "turned_r">>, <<"i", "small_i">>, <<"u", "upsilon">>,
     <<"e", "epsilon">>, <<"o", "open_o">>, <<"ash", "epsilon">>,
     <<"turned_v", "schwa">>}

\* C13: two tokens whose cores are the two members of a listed pair, in
\* either order, with or without stress and length marks, score 0.5.
ConfusionPairs ==
    (spc = "returned" /\
     \E pair \in ListedPairs :
        \/ <<Core(p1), Core(p2)>> = << <<pair[1]>>, <<pair[2]>> >>
        \/ <<Core(p1), Core(p2)>> = << <<pair[2]>>, <<pair[1]>> >>)
    => similarity = 5

\* the similarity of a long eng and a stressed n: the pair n/eng in reverse
\* order, both tokens marked
ConfusionPairsWitness ==
    /\ spc = "returned"
    /\ p1 = <<"eng", "len">>
    /\ p2 = <<"stress2", "n">>
    /\ similarity = 5

\* the cores of the two tokens are both members of one entry of the table
InOnePair(a, b) ==
    \E k \in 1..Len(similar_pairs) :
        {Core(a), Core(b)} \subseteq {similar_pairs[k][1], similar_pairs[k][2]}

\* C14: the score is 0.0 exactly when the tokens differ, differ once
\* stripped of stress and length marks, and their cores are not both members
\* of one pair of the table; every score is one of 0.0, 0.5, 0.8, 1.0.
UnrelatedTokens ==
    spc = "returned" =>
        /\ similarity \in {0, 5, 8, 10}
        /\ similarity = 0 <=> (p1 # p2 /\ Core(p1) # Core(p2) /\ ~InOnePair(p1, p2))

\* the similarity of two marked tokens, each a member of the table, that
\* share no pair
UnrelatedTokensWitness ==
    /\ spc = "returned"
    /\ p1 = <<"stress1", "p">>
    /\ p2 = <<"eng", "len">>
    /\ similarity = 0

\* the characters of a list of tokens, in order
RECURSIVE Flatten(_)
Flatten(list) ==
    IF list = <<>> THEN <<>> ELSE Head(list) \o Flatten(Tail(list))

NormExtracted == npc \in {"extracted", "compared"}

\* C15: the tokens of extract_phonemes(s), concatenated in order, are
\* normalize(s) without its whitespace.
TokenRoundTrip ==
    NormExtracted => Flatten(phonemes) = RemoveAll(normalized, Whitespace)

\* a string with a stress marker and a space, cut into two tokens
TokenRoundTripWitness ==
    /\ npc = "extracted"
    /\ keep_stress
    /\ ipa_string = <<"stress1", "sp", "e">>
    /\ normalized = <<"stress1", "sp", "e">>
    /\ phonemes = << <<"stress1">>, <<"e">> >>

\* the base symbols and the modifiers of the alphabet
BaseSymbols == {"e", "i", "h", "l", "o", "d", "m", "p"}

Modifiers == {"acute", "len", "half_len", "asp"}

\* C16: with keep_length, a raw string that begins with a base symbol and
\* consists of base symbols and modifiers gives one token for each base
\* symbol, and no token begins with a modifier or with the character that
\* normalize puts in its place.
ModifierAttachment ==
    (/\ NormExtracted
     /\ keep_length
     /\ ipa_string # <<>>
     /\ ipa_string[1] \in BaseSymbols
     /\ \A k \in 1..Len(ipa_string) : ipa_string[k] \in BaseSymbols \cup Modifiers)
    => /\ Len(phonemes) = Len(RemoveAll(ipa_string, Modifiers))
       /\ \A k \in 1..Len(phonemes) : phonemes[k][1] \notin Modifiers \cup {"colon"}

\* a character that begins a token or joins a stress marker: neither
\* whitespace, nor a mark or modifier, nor a stress marker
IsBase(char) ==
    /\ char \notin Whitespace
    /\ ~is_combining(char)
    /\ char \notin STRESS_MARKERS

\* the number of characters of the tokens before token n
Offset(list, n) == Len(Flatten(SubSeq(list, 1, n - 1)))

TieBarInsensitive ==
    npc = "compared" =>
        /\ plain_normalized = normalized
        /\ plain_phonemes = phonemes

\* the four matches of b, ɜ, ɹ, d
BirdMatches ==
    << <<<<"b">>, <<"b">>, "match">>,
       <<<<"rev_eps">>, <<"rev_eps">>, "match">>,
       <<<<"turned_r">>, <<"turned_r">>, "match">>,
       <<<<"d">>, <<"d">>, "match">> >>

BirdSpellings == {<<"b", "rev_eps_r", "d">>, <<"b", "rev_eps", "turned_r", "d">>}

\* C19: extract_phonemes gives the tokens ə, ɹ for ɚ and ɜ, ɹ for ɝ; 'bɝd'
\* aligned with itself or with 'bɜɹd', either way round, gives four matches.
RColoredVowels ==
    pc = "align_done" =>
        /\ text_ipa = <<"schwar">> => seq1 = << <<"schwa">>, <<"turned_r">> >>
        /\ text_ipa = <<"rev_eps_r">> => seq1 = << <<"rev_eps">>, <<"turned_r">> >>
        /\ (text_ipa \in BirdSpellings /\ audio_ipa \in BirdSpellings) =>
               alignment = BirdMatches

\* 'bɝd' as the audio against the spelled-out text 'bɜɹd'
RColoredVowelsWitness ==
    /\ pc = "align_done"
    /\ audio_ipa = <<"b", "rev_eps_r", "d">>
    /\ text_ipa = <<"b", "rev_eps", "turned_r", "d">>
    /\ alignment = BirdMatches

\* a sequence without its last token
Front(s) == SubSeq(s, 1, Len(s) - 1)

\* al has the op gap at place d and a match at every other place
OneGapAt(al, d, gap) ==
    /\ d \in 1..Len(al)
    /\ al[d] = gap
    /\ \A k \in 1..Len(al) : k # d => al[k][3] = "match"

\* C20, as the specification states it: when the actual tokens are the
\* expected tokens without the last one, t, the alignment is one delete of t
\* among matches; when they are the expected tokens and one more token s,
\* it is one insert of s among matches.
FinalPhonemeLast ==
    Finished =>
        /\ (seq1 # <<>> /\ seq2 = Front(seq1)) =>
               \E d \in 1..Len(alignment) :
                   OneGapAt(alignment, d, <<seq1[Len(seq1)], PLACEHOLDER, "delete">>)
        /\ (seq2 # <<>> /\ seq1 = Front(seq2)) =>
               \E d \in 1..Len(alignment) :
                   OneGapAt(alignment, d, <<PLACEHOLDER, seq2[Len(seq2)], "insert">>)

\* the place where the run of tokens that ends s begins, each token of the
\* run scoring 0.8 or more with the one before it
RunStart(s) ==
    CHOOSE p \in 1..Len(s) :
        /\ \A q \in (p + 1)..Len(s) : phoneme_similarity(s[q - 1], s[q]) >= 8
        /\ p = 1 \/ phoneme_similarity(s[p - 1], s[p]) < 8

\* C20: when the actual tokens are the expected tokens without the last
\* one, the alignment is one delete among matches, and the deleted token is
\* the first of the run of matching tokens that ends the expected tokens:
\* the last one unless the token before it scores 0.8 or more with it.  The
\* same holds for one insert when the actual tokens have one more token.
\* align("kæ", "kæt") is match k, match æ, delete t; align("kæts", "kæt") is
\* three matches and insert s.
FinalPhoneme ==
    Finished =>
        /\ (seq1 # <<>> /\ seq2 = Front(seq1)) =>
               OneGapAt(alignment, RunStart(seq1),
                        <<seq1[RunStart(seq1)], PLACEHOLDER, "delete">>)
        /\ (seq2 # <<>> /\ seq1 = Front(seq2)) =>
               OneGapAt(alignment, RunStart(seq2),
                        <<PLACEHOLDER, seq2[RunStart(seq2)], "insert">>)
        /\ (pc = "align_done" /\ audio_ipa = <<"k", "ash">> /\ text_ipa = <<"k", "ash", "t">>) =>
               alignment = << <<<<"k">>, <<"k">>, "match">>,
                              <<<<"ash">>, <<"ash">>, "match">>,
                              <<<<"t">>, PLACEHOLDER, "delete">> >>
        /\ (pc = "align_done" /\ audio_ipa = <<"k", "ash", "t", "s">> /\ text_ipa = <<"k", "ash", "t">>) =>
               alignment = << <<<<"k">>, <<"k">>, "match">>,
                              <<<<"ash">>, <<"ash">>, "match">>,
                              <<<<"t">>, <<"t">>, "match">>,
                              <<PLACEHOLDER, <<"s">>, "insert">> >>

\* the text 'aˈa' said as 'a': the first a is deleted and the stressed a
\* matches the a that was said
FinalPhonemeWitness ==
    /\ pc = "align_done"
    /\ keep_stress
    /\ text_ipa = <<"a", "stress1", "a">>
    /\ audio_ipa = <<"a">>
    /\ alignment = << <<<<"a">>, PLACEHOLDER, "delete">>,
                      <<<<"stress1", "a">>, <<"a">>, "match">> >>

\* the places where two token lists of one length differ
Differing(s1, s2) == {k \in 1..Len(s1) : s1[k] # s2[k]}

\* the ops of 'θɪŋk' said with the first consonant c
ThinkWith(c) ==
    << <<<<"theta">>, <<c>>, "substitute">>,
       <<<<"small_i">>, <<"small_i">>, "match">>,
       <<<<"eng">>, <<"eng">>, "match">>,
       <<<<"k">>, <<"k">>, "match">> >>

\* C21: when the expected and the actual tokens have one length and differ
\* at one place only, with a similarity below 0.8 there, the alignment pairs
\* the tokens place by place, with a substitute at that place and matches
\* elsewhere; 'fɪŋk' and 'sɪŋk' said for 'θɪŋk' give a substitute for θ and
\* three matches.
SingleSubstitution ==
    Finished =>
        /\ (/\ Len(seq1) = Len(seq2)
            /\ Cardinality(Differing(seq1, seq2)) = 1
            /\ \A k \in Differing(seq1, seq2) : phoneme_similarity(seq1[k], seq2[k]) < 8)
           => alignment = [k \in 1..Len(seq1) |->
                              <<seq1[k], seq2[k],
                                IF seq1[k] = seq2[k] THEN "match" ELSE "substitute">>]
        /\ (pc = "align_done" /\ text_ipa = <<"theta", "small_i", "eng", "k">>) =>
               /\ audio_ipa = <<"f", "small_i", "eng", "k">> => alignment = ThinkWith("f")
               /\ audio_ipa = <<"s", "small_i", "eng", "k">> => alignment = ThinkWith("s")

\* 'fɪŋk' said for 'θɪŋk'
SingleSubstitutionWitness ==
    /\ pc = "align_done"
    /\ text_ipa = <<"theta", "small_i", "eng", "k">>
    /\ audio_ipa = <<"f", "small_i", "eng", "k">>
    /\ alignment = ThinkWith("f")

\* C27: in an alignment that _needleman_wunsch returns, no delete stands
\* next to an insert.
NoAdjacentGapPair ==
    Finished =>
        \A k \in 1..(Len(alignment) - 1) :
            {alignment[k][3], alignment[k + 1][3]} # {"delete", "insert"}

\* two unrelated tokens: one substitute, where a delete and an insert would
\* also cover both lists
NoAdjacentGapPairWitness ==
    /\ pc = "done"
    /\ seq1 = << <<"k">> >>
    /\ seq2 = << <<"a">> >>
    /\ alignment = << <<<<"k">>, <<"a">>, "substitute">> >>

MatchTypes == {"match", "substitute", "delete", "insert"}

\* what align returns is a list of (expected, actual, match_type)
IsAlignment(al) ==
    /\ DOMAIN al = 1..Len(al)
    /\ \A k \in 1..Len(al) :
           /\ Len(al[k]) = 3
           /\ al[k][3] \in MatchTypes

\* C22: a call of align, whatever its strings (empty, one space, one
\* boundary marker, one stress marker, one combining mark among them), returns
\* a list of ops, and a string whose normalized form is empty gives the empty
\* token list; every iteration of the while loop of the traceback keeps i and
\* j at 0 or more and makes i + j smaller, so the loop ends.
NoErrorOutcome ==
    /\ [](pc = "align_done" =>
              /\ IsAlignment(alignment)
              /\ normalize(text_ipa, keep_stress, keep_length) = <<>> => seq1 = <<>>
              /\ normalize(audio_ipa, keep_stress, keep_length) = <<>> => seq2 = <<>>
              /\ text_ipa = <<>> => seq1 = <<>>)
    /\ [][Traceback => (i' >= 0 /\ j' >= 0 /\ i' + j' < i + j)]_vars

\* a boundary marker said for a combining mark: the call returns one delete
NoErrorOutcomeWitness ==
    /\ pc = "align_done"
    /\ audio_ipa = <<"bar">>
    /\ text_ipa = <<"acute">>
    /\ alignment = << <<<<"acute">>, PLACEHOLDER, "delete">> >>

\* the marks and modifiers that s begins with
RECURSIVE LeadingMarks(_)
LeadingMarks(s) ==
    IF s # <<>> /\ is_combining(Head(s))
    THEN <<Head(s)>> \o LeadingMarks(Tail(s))
    ELSE <<>>

\* C23: when the normalized string begins with a combining mark or a
\* modifier, the first token is made of the marks and modifiers the string
\* begins with and of nothing else, and a base symbol that follows them
\* begins the second token.
LeadingCombiningMark ==
    (NormExtracted /\ normalized # <<>> /\ is_combining(normalized[1])) =>
        LET marks == LeadingMarks(normalized)
        IN /\ Len(phonemes) >= 1
           /\ phonemes[1] = marks
           /\ (Len(normalized) > Len(marks) /\ IsBase(normalized[Len(marks) + 1])) =>
                  /\ Len(phonemes) >= 2
                  /\ phonemes[2][1] = normalized[Len(marks) + 1]

\* an acute accent before e: two tokens
LeadingCombiningMarkWitness ==
    /\ npc = "extracted"
    /\ ipa_string = <<"acute", "e">>
    /\ normalized = <<"acute", "e">>
    /\ phonemes = << <<"acute">>, <<"e">> >>

\* the number of stress markers in s
StressCount(s) == Len(s) - Len(RemoveAll(s, STRESS_MARKERS))

\* C24: without keep_stress no token holds a stress marker, and the tokens
\* of a string are the tokens of the string without its stress markers (so
\* align gives the same for both); with keep_stress the tokens hold every
\* stress marker of the string.
StressInsensitive ==
    NormExtracted =>
        /\ ~keep_stress =>
               /\ StressCount(Flatten(phonemes)) = 0
               /\ phonemes = extract_phonemes(RemoveAll(ipa_string, STRESS_MARKERS),
                                              keep_stress, keep_length)
        /\ keep_stress => StressCount(Flatten(phonemes)) = StressCount(ipa_string)

\* the characters of a token that are neither a stress marker nor a mark or
\* modifier
BasesOf(tok) == {k \in 1..Len(tok) : tok[k] \notin STRESS_MARKERS /\ ~is_combining(tok[k])}

\* C28: every token is non-empty, holds no whitespace and no boundary
\* marker, holds at most one character that is neither a stress marker nor
\* a mark or modifier, and holds a stress marker as its first character only.
TokenWellFormed ==
    NormExtracted =>
        \A n \in 1..Len(phonemes) :
            /\ phonemes[n] # <<>>
            /\ \A k \in 1..Len(phonemes[n]) :
                   /\ phonemes[n][k] \notin Whitespace \cup PROSODIC_MARKERS
                   /\ phonemes[n][k] \in STRESS_MARKERS => k = 1
            /\ Cardinality(BasesOf(phonemes[n])) <= 1

\* a stressed e before a boundary marker: one token, without the marker
TokenWellFormedWitness ==
    /\ npc = "extracted"
    /\ keep_stress
    /\ ipa_string = <<"stress1", "e", "bar">>
    /\ phonemes = << <<"stress1", "e">> >>

(***************************************************************************)
(* ARPAbet to IPA conversion (arpabet_ipa.py).  An ARPAbet symbol is a     *)
(* sequence of ASCII characters, each named by itself.                     *)
(***************************************************************************)
\* the dict as its list of <<key, value>> items
ARPABET_TO_IPA ==
    << << <<"A", "A">>, <<"script_a">> >>,
       << <<"A", "E">>, <<"ash">> >>,
       << <<"A", "H">>, <<"turned_v">> >>,
       << <<"A", "O">>, <<"open_o">> >>,
       << <<"E", "H">>, <<"epsilon">> >>,
       << <<"E", "R">>, <<"rev_eps_r">> >>,
       << <<"I", "H">>, <<"small_i">> >>,
       << <<"I", "Y">>, <<"i">> >>,
       << <<"U", "H">>, <<"upsilon">> >>,
       << <<"U", "W">>, <<"u">> >>,
       << <<"A", "W">>, <<"a", "upsilon">> >>,
       << <<"A", "Y">>, <<"a", "small_i">> >>,
       << <<"E", "Y">>, <<"e", "small_i">> >>,
       << <<"O", "W">>, <<"o", "upsilon">> >>,
       << <<"O", "Y">>, <<"open_o", "small_i">> >>,
       << <<"B">>, <<"b">> >>,
       << <<"D">>, <<"d">> >>,
       << <<"G">>, <<"g">> >>,
       << <<"K">>, <<"k">> >>,
       << <<"P">>, <<"p">> >>,
       << <<"T">>, <<"t">> >>,
       << <<"D", "H">>, <<"eth">> >>,
       << <<"F">>, <<"f">> >>,
       << <<"S">>, <<"s">> >>,
       << <<"S", "H">>, <<"esh">> >>,
       << <<"T", "H">>, <<"theta">> >>,
       << <<"V">>, <<"v">> >>,
       << <<"Z">>, <<"z">> >>,
       << <<"Z", "H">>, <<"ezh">> >>,
       << <<"C", "H">>, <<"t", "esh">> >>,
       << <<"J", "H">>, <<"d", "ezh">> >>,
       << <<"M">>, <<"m">> >>,
       << <<"N">>, <<"n">> >>,
       << <<"N", "G">>, <<"eng">> >>,
       << <<"L">>, <<"l">> >>,
       << <<"R">>, <<"turned_r">> >>,
       << <<"W">>, <<"w">> >>,
       << <<"Y">>, <<"j">> >>,
       << <<"H", "H">>, <<"h">> >> >>

\* dict.keys() and dict.get(key, default)
Keys(items) == {items[k][1] : k \in 1..Len(items)}

Get(items, key, default) ==
    IF key \in Keys(items)
    THEN items[CHOOSE k \in 1..Len(items) : items[k][1] = key][2]
    ELSE default

\* strip_stress that removes the primary-stress digit only
strip_stress_primary(symbol) == RStrip(symbol, {"1"})

\* arpabet.rstrip('012')
strip_stress(symbol) == RStrip(symbol, {"0", "1", "2"})

\* arpabet_to_ipa that returns the stripped form of an unknown symbol
arpabet_to_ipa_stripped(symbol) ==
    Get(ARPABET_TO_IPA, strip_stress(symbol), strip_stress(symbol))

arpabet_to_ipa(symbol) ==
    Get(ARPABET_TO_IPA, strip_stress(symbol), symbol)

arpabet_sequence_to_ipa(list) ==
    [k \in 1..Len(list) |-> arpabet_to_ipa(list[k])]

(***************************************************************************)
(* SpecArpa: a caller converts one ARPAbet symbol, or a list of symbols.   *)
(***************************************************************************)
StressDigits == {"0", "1", "2"}

\* bases that are no key of the table: the two of test_unknown_symbol, a
\* lower-case spelling, a reversed key, and the empty symbol
UnknownBases ==
    {<<"X", "X">>, <<"?", "?", "?">>, <<"a", "a">>, <<"H", "A">>, <<>>}

\* every base, alone and followed by stress digits
ArpaSymbols ==
    {base \o digits : base \in Keys(ARPABET_TO_IPA) \cup UnknownBases,
                      digits \in StringsUpTo(StressDigits, MaxMarks)}

\* the symbols of tests/test_arpabet_ipa.py, TestArpabetSequenceToIpa, and
\* two unknown ones
SequenceSymbols ==
    {<<"K">>, <<"A", "E", "1">>, <<"T">>, <<"B">>, <<"A", "Y", "1">>,
     <<"C", "H">>, <<"E", "R", "1">>, <<"I", "H", "0">>, <<"X", "X">>,
     <<"X", "X", "2">>}

ArpaInit ==
    /\ keep_stress = TRUE
    /\ keep_length = TRUE
    /\ NormIdle
    /\ SimIdle
    /\ AlignIdle
    /\ apc = "start"
    /\ arpabet = <<>>
    /\ ipa = <<>>
    /\ phones = <<>>
    /\ ipa_phones = <<>>
    /\ TrackIdle
    /\ CallIdle
    /\ ApiIdle

ArpabetToIpa ==
    /\ apc = "start"
    /\ \E symbol \in ArpaSymbols :
          /\ arpabet' = symbol
          /\ ipa' = arpabet_to_ipa(symbol)
    /\ apc' = "converted"
    /\ UNCHANGED <<keep_stress, keep_length, normVars, simVars, alignVars,
                   phones, ipa_phones, trackVars, callVars, apiVars>>

ArpabetSequenceToIpa ==
    /\ apc = "start"
    /\ \E list \in StringsUpTo(SequenceSymbols, MaxSeqLen) :
          /\ phones' = list
          /\ ipa_phones' = arpabet_sequence_to_ipa(list)
    /\ apc' = "sequence_converted"
    /\ UNCHANGED <<keep_stress, keep_length, normVars, simVars, alignVars,
                   arpabet, ipa, trackVars, callVars, apiVars>>

ArpaNext == ArpabetToIpa \/ ArpabetSequenceToIpa

SpecArpa == ArpaInit /\ [][ArpaNext]_vars

\* the table entry for a key
TableEntry(base) ==
    ARPABET_TO_IPA[CHOOSE k \in 1..Len(ARPABET_TO_IPA) :
                       ARPABET_TO_IPA[k][1] = base][2]

\* the symbol without its last character
ButLast(symbol) == SubSeq(symbol, 1, Len(symbol) - 1)

\* the symbol without any of the stress digits it ends in
RECURSIVE WithoutTrailingDigits(_)
WithoutTrailingDigits(symbol) ==
    IF symbol # <<>> /\ symbol[Len(symbol)] \in StressDigits
    THEN WithoutTrailingDigits(ButLast(symbol))
    ELSE symbol

\* C26: a key of the table converts to its table entry, alone and followed
\* by one stress digit 0, 1 or 2; a symbol that is no key once its trailing
\* stress digits are removed is returned as it was given; the list
\* conversion returns, position by position, the conversion of each symbol,
\* in a list of the same length.
ArpabetConversion ==
    /\ apc = "converted" =>
          /\ arpabet \in Keys(ARPABET_TO_IPA) => ipa = TableEntry(arpabet)
          /\ (/\ arpabet # <<>>
              /\ arpabet[Len(arpabet)] \in StressDigits
              /\ ButLast(arpabet) \in Keys(ARPABET_TO_IPA))
             => ipa = TableEntry(ButLast(arpabet))
          /\ WithoutTrailingDigits(arpabet) \notin Keys(ARPABET_TO_IPA)
             => ipa = arpabet
    /\ apc = "sequence_converted" =>
          /\ Len(ipa_phones) = Len(phones)
          /\ \A k \in 1..Len(phones) :
                LET base == WithoutTrailingDigits(phones[k])
                IN ipa_phones[k] = IF base \in Keys(ARPABET_TO_IPA)
                                   THEN TableEntry(base)
                                   ELSE phones[k]

\* 'AE0' became 'æ'
ArpabetConversionWitness ==
    /\ apc = "converted"
    /\ arpabet = <<"A", "E", "0">>
    /\ ipa = <<"ash">>

(***************************************************************************)
(* PhonemeConfusionTracker (confusion_tracker.py).  A dict is the list of  *)
(* its <<key, value>> items in insertion order; confusion_matrix is a dict *)
(* of dicts of counts.  A percentage is kept as the fraction num / den.    *)
(***************************************************************************)
MaxRecords == 2       \* most calls of record_alignment on one tracker

MISSING == <<"<", "m", "i", "s", "s", "i", "n", "g", ">">>
EXTRA == <<"<", "e", "x", "t", "r", "a", ">">>

\* dict[key] = value
Put(items, key, value) ==
    IF key \in Keys(items)
    THEN [k \in 1..Len(items) |->
             IF items[k][1] = key THEN <<key, value>> ELSE items[k]]
    ELSE Append(items, <<key, value>>)

\* defaultdict[key]: the value, and the dict after the access
Lookup(items, key, default) ==
    [value |-> Get(items, key, default),
     items |-> IF key \in Keys(items) THEN items ELSE Append(items, <<key, default>>)]

\* self.confusion_matrix[row][col] += 1
Increment(matrix, row, col) ==
    LET outer == Lookup(matrix, row, <<>>)
        inner == Lookup(outer.value, col, 0)
    IN Put(outer.items, row, Put(inner.items, col, inner.value + 1))

\* RecordOp that files an insert under its expected element
RecordOpInsertUnderExpected(matrix, op) ==
    IF op[3] = "delete" THEN Increment(matrix, op[1], MISSING)
    ELSE IF op[3] = "insert" THEN Increment(matrix, op[1], op[2])
    ELSE IF op[3] = "match" THEN Increment(matrix, op[1], op[1])
    ELSE IF op[3] = "substitute" THEN Increment(matrix, op[1], op[2])
    ELSE matrix

\* RecordOp that files a match under the actual phoneme
RecordOpMatchAsActual(matrix, op) ==
    IF op[3] = "delete" THEN Increment(matrix, op[1], MISSING)
    ELSE IF op[3] = "insert" THEN Increment(matrix, EXTRA, op[2])
    ELSE IF op[3] = "match" THEN Increment(matrix, op[1], op[2])
    ELSE IF op[3] = "substitute" THEN Increment(matrix, op[1], op[2])
    ELSE matrix

\* the body of "for expected, actual, match_type in alignment"
RecordOp(matrix, op) ==
    IF op[3] = "delete" THEN Increment(matrix, op[1], MISSING)
    ELSE IF op[3] = "insert" THEN Increment(matrix, EXTRA, op[2])
    ELSE IF op[3] = "match" THEN Increment(matrix, op[1], op[1])
    ELSE IF op[3] = "substitute" THEN Increment(matrix, op[1], op[2])
    ELSE matrix

RECURSIVE record_alignment(_, _)
record_alignment(matrix, ops) ==
    IF ops = <<>>
    THEN matrix
    ELSE record_alignment(RecordOp(matrix, Head(ops)), Tail(ops))

\* sum(dict.values())
RECURSIVE SumValues(_)
SumValues(items) ==
    IF items = <<>> THEN 0 ELSE Head(items)[2] + SumValues(Tail(items))

\* {sub: count for sub, count in dict.items() if sub != phoneme}
RECURSIVE Without(_, _)
Without(items, phoneme) ==
    IF items = <<>> THEN <<>>
    ELSE IF Head(items)[1] = phoneme THEN Without(Tail(items), phoneme)
    ELSE <<Head(items)>> \o Without(Tail(items), phoneme)

\* (correct / total * 100) if total > 0 else 0.0
Percentage(correct, total) ==
    IF total > 0 THEN [num |-> correct * 100, den |-> total]
    ELSE [num |-> 0, den |-> 1]

\* the statistics computed from the row of a phoneme
RowStats(row, phoneme) ==
    [total |-> SumValues(row),
     correct |-> Get(row, phoneme, 0),
     accuracy |-> Percentage(Get(row, phoneme, 0), SumValues(row)),
     substitutions |-> Without(row, phoneme)]

\* get_phoneme_stats without the test "phoneme not in self.confusion_matrix"
get_phoneme_stats_unguarded(matrix, phoneme) ==
    LET row == Lookup(matrix, phoneme, <<>>)
    IN [stats |-> RowStats(row.value, phoneme), matrix |-> row.items]

\* get_phoneme_stats(phoneme): the dict it returns, and the matrix after
get_phoneme_stats(matrix, phoneme) ==
    IF phoneme \notin Keys(matrix)
    THEN [stats |-> [total |-> 0, correct |-> 0,
                     accuracy |-> [num |-> 0, den |-> 1],
                     substitutions |-> <<>>],
          matrix |-> matrix]
    ELSE LET row == Lookup(matrix, phoneme, <<>>)
         IN [stats |-> RowStats(row.value, phoneme), matrix |-> row.items]

\* list.sort(key=accuracy): a stable insertion of pair into a sorted list
RECURSIVE InsertByAccuracy(_, _)
InsertByAccuracy(sorted, pair) ==
    IF sorted = <<>> THEN <<pair>>
    ELSE IF pair[2].num * Head(sorted)[2].den < Head(sorted)[2].num * pair[2].den
    THEN <<pair>> \o sorted
    ELSE <<Head(sorted)>> \o InsertByAccuracy(Tail(sorted), pair)

RECURSIVE SortByAccuracy(_)
SortByAccuracy(pairs) ==
    IF pairs = <<>> THEN <<>>
    ELSE InsertByAccuracy(SortByAccuracy(SubSeq(pairs, 1, Len(pairs) - 1)),
                          pairs[Len(pairs)])

\* the <<phoneme, accuracy>> pairs get_worst_phonemes collects
RECURSIVE PhonemeAccuracies(_, _)
PhonemeAccuracies(matrix, items) ==
    IF items = <<>> THEN <<>>
    ELSE LET phoneme == Head(items)[1]
             st == get_phoneme_stats(matrix, phoneme).stats
         IN (IF phoneme # EXTRA /\ st.total >= 3
             THEN << <<phoneme, st.accuracy>> >>
             ELSE <<>>)
            \o PhonemeAccuracies(matrix, Tail(items))

get_worst_phonemes(matrix, n) ==
    LET sorted == SortByAccuracy(PhonemeAccuracies(matrix, matrix))
    IN SubSeq(sorted, 1, IF Len(sorted) < n THEN Len(sorted) ELSE n)

\* the two sums of get_summary over the keys of items
RECURSIVE SummarySums(_, _)
SummarySums(matrix, items) ==
    IF items = <<>> THEN [samples |-> 0, correct |-> 0]
    ELSE LET rest == SummarySums(matrix, Tail(items))
             st == get_phoneme_stats(matrix, Head(items)[1]).stats
         IN IF Head(items)[1] = EXTRA
            THEN rest
            ELSE [samples |-> st.total + rest.samples,
                  correct |-> st.correct + rest.correct]

get_summary(matrix) ==
    LET sums == SummarySums(matrix, matrix)
    IN [total_phonemes |-> Len(matrix),
        total_samples |-> sums.samples,
        overall_accuracy |-> Percentage(sums.correct, sums.samples),
        worst_phonemes |-> get_worst_phonemes(matrix, 5)]

(***************************************************************************)
(* SpecTrack: a tracker constructed without storage_path records           *)
(* alignments returned by PhonemeAligner().align and is asked for          *)
(* statistics in between.                                                  *)
(***************************************************************************)
TrackStrings ==
    {<<>>, <<"k">>, <<"g">>, <<"stress1", "k">>, <<"k", "a">>, <<"dash">>}

TrackAlignments ==
    {align(audio, text, TRUE, TRUE) : audio \in TrackStrings, text \in TrackStrings}

\* the phonemes asked about: the tokens above, one never seen, and the
\* two special keys
TrackPhonemes ==
    {<<"k">>, <<"g">>, <<"stress1", "k">>, <<"a">>, <<"dash">>, <<"n">>,
     MISSING, EXTRA}

TrackInit ==
    /\ keep_stress = TRUE
    /\ keep_length = TRUE
    /\ NormIdle
    /\ SimIdle
    /\ AlignIdle
    /\ ArpaIdle
    /\ confusion_matrix = <<>>
    /\ recorded = <<>>
    /\ stats_phoneme = <<>>
    /\ stats = <<>>
    /\ summary = <<>>
    /\ CallIdle
    /\ ApiIdle

\* record_alignment(alignment); results of earlier queries are dropped
RecordAlignment ==
    /\ Len(recorded) < MaxRecords
    /\ \E ops \in TrackAlignments :
          /\ confusion_matrix' = record_alignment(confusion_matrix, ops)
          /\ recorded' = Append(recorded, ops)
    /\ stats_phoneme' = <<>>
    /\ stats' = <<>>
    /\ summary' = <<>>
    /\ UNCHANGED <<keep_stress, keep_length, normVars, simVars, alignVars,
                   arpaVars, callVars, apiVars>>

GetPhonemeStats ==
    /\ \E phoneme \in TrackPhonemes :
          LET call == get_phoneme_stats(confusion_matrix, phoneme)
          IN /\ stats_phoneme' = phoneme
             /\ stats' = call.stats
             /\ confusion_matrix' = call.matrix
    /\ summary' = <<>>
    /\ UNCHANGED <<keep_stress, keep_length, normVars, simVars, alignVars,
                   arpaVars, recorded, callVars, apiVars>>

GetSummary ==
    /\ summary' = get_summary(confusion_matrix)
    /\ stats_phoneme' = <<>>
    /\ stats' = <<>>
    /\ UNCHANGED <<keep_stress, keep_length, normVars, simVars, alignVars,
                   arpaVars, confusion_matrix, recorded, callVars, apiVars>>

TrackNext == RecordAlignment \/ GetPhonemeStats \/ GetSummary

SpecTrack == TrackInit /\ [][TrackNext]_vars

\* every tuple recorded so far, and how many of them satisfy a test
RecordedOps == Flatten(recorded)

CountOps(Test(_)) ==
    Cardinality({k \in 1..Len(RecordedOps) : Test(RecordedOps[k])})

\* the expected tokens of the recorded tuples that are no inserts
RecordedExpected ==
    {RecordedOps[k][1] : k \in {n \in 1..Len(RecordedOps) :
                                    RecordedOps[n][3] # "insert"}}

\* C29: after any record_alignment calls on an empty tracker, the statistics
\* of a phoneme p other than '<extra>' have total = the recorded match,
\* substitute and delete tuples expecting p, correct = the recorded match
\* tuples expecting p, correct <= total, an accuracy within [0, 100] and
\* correct + the substitution counts = total; the inserts are counted in the
\* row '<extra>' and in no other row, and total_samples of the summary is
\* the number of recorded tuples that are no inserts; asking about a phoneme
\* never recorded returns zeros and leaves the matrix without a key for it.
TrackerAccounting ==
    LET p == stats_phoneme
        Expecting(op) == op[1] = p /\ op[3] \in {"match", "substitute", "delete"}
        MatchExpecting(op) == op[1] = p /\ op[3] = "match"
        IsInsert(op) == op[3] = "insert"
        NoInsert(op) == op[3] # "insert"
    IN /\ (p # <<>> /\ p # EXTRA) =>
             /\ stats.total = CountOps(Expecting)
             /\ stats.correct = CountOps(MatchExpecting)
             /\ stats.correct <= stats.total
             /\ stats.accuracy.den > 0
             /\ 0 <= stats.accuracy.num
             /\ stats.accuracy.num <= 100 * stats.accuracy.den
             /\ stats.correct + SumValues(stats.substitutions) = stats.total
       /\ SumValues(Get(confusion_matrix, EXTRA, <<>>)) = CountOps(IsInsert)
       /\ \A k \in 1..Len(confusion_matrix) :
             confusion_matrix[k][1] # EXTRA =>
                LET row == confusion_matrix[k][1]
                    InRow(op) == op[1] = row /\ op[3] # "insert"
                IN SumValues(confusion_matrix[k][2]) = CountOps(InRow)
       /\ summary # <<>> => summary.total_samples = CountOps(NoInsert)
       /\ (p # <<>> /\ p # EXTRA /\ p \notin RecordedExpected) =>
             /\ stats.total = 0
             /\ stats.correct = 0
             /\ stats.accuracy.num = 0
             /\ stats.substitutions = <<>>
       /\ Keys(confusion_matrix) \ {EXTRA} = RecordedExpected

\* after align('k', 'ka') (a match and a delete) and align('ka', 'k') (a
\* match and an insert) the phoneme k is asked about: two of two correct
TrackerAccountingWitness ==
    /\ Len(recorded) = 2
    /\ CountOps(LAMBDA op : op[3] = "insert") = 1
    /\ CountOps(LAMBDA op : op[3] = "delete") = 1
    /\ stats_phoneme = <<"k">>
    /\ stats.total = 2
    /\ stats.correct = 2

(***************************************************************************)
(* SpecCall: the callers of Callers run align on one shared PhonemeAligner *)
(* at the same time.  keep_stress and keep_length are the fields of the    *)
(* shared instance; audio_phonemes, text_phonemes, dp, i, j and alignment  *)
(* are locals of each call, kept per caller.  The steps of the calls       *)
(* interleave in any order.                                                *)
(***************************************************************************)
CallStrings == {<<>>, <<"k">>, <<"g", "a">>, <<"stress1", "k">>}

CallInit ==
    /\ keep_stress \in BOOLEAN
    /\ keep_length = TRUE
    /\ NormIdle
    /\ SimIdle
    /\ AlignIdle
    /\ ArpaIdle
    /\ TrackIdle
    /\ CallIdle
    /\ ApiIdle

\* AppendTo that appends to the list of every caller
AppendToEvery(lists, c, ops) ==
    [d \in DOMAIN lists |-> lists[d] \o ops]

\* alignment.append(...) in the call of c: alignment is the list created by
\* "alignment = []" in that call
AppendTo(lists, c, ops) ==
    [lists EXCEPT ![c] = lists[c] \o ops]

\* caller c enters align(audio_ipa, text_ipa)
CallAlign(c) ==
    /\ call_pc[c] = "idle"
    /\ \E audio \in CallStrings, text \in CallStrings :
          /\ call_audio_ipa' = [call_audio_ipa EXCEPT ![c] = audio]
          /\ call_text_ipa' = [call_text_ipa EXCEPT ![c] = text]
    /\ call_pc' = [call_pc EXCEPT ![c] = "entered"]
    /\ UNCHANGED <<keep_stress, keep_length, normVars, simVars, alignVars,
                   arpaVars, trackVars, call_seq1, call_seq2, call_dp,
                   call_i, call_j, call_alignment, apiVars>>

\* audio_phonemes = self.extract_phonemes(audio_ipa)
CallExtractAudio(c) ==
    /\ call_pc[c] = "entered"
    /\ call_seq2' = [call_seq2 EXCEPT ![c] =
                        extract_phonemes(call_audio_ipa[c], keep_stress, keep_length)]
    /\ call_pc' = [call_pc EXCEPT ![c] = "audio_extracted"]
    /\ UNCHANGED <<keep_stress, keep_length, normVars, simVars, alignVars,
                   arpaVars, trackVars, call_audio_ipa, call_text_ipa,
                   call_seq1, call_dp, call_i, call_j, call_alignment, apiVars>>

\* text_phonemes = self.extract_phonemes(text_ipa)
CallExtractText(c) ==
    /\ call_pc[c] = "audio_extracted"
    /\ call_seq1' = [call_seq1 EXCEPT ![c] =
                        extract_phonemes(call_text_ipa[c], keep_stress, keep_length)]
    /\ call_pc' = [call_pc EXCEPT ![c] = "text_extracted"]
    /\ UNCHANGED <<keep_stress, keep_length, normVars, simVars, alignVars,
                   arpaVars, trackVars, call_audio_ipa, call_text_ipa,
                   call_seq2, call_dp, call_i, call_j, call_alignment, apiVars>>

\* _needleman_wunsch: the table is filled, the traceback starts at (m, n)
CallFillTable(c) ==
    /\ call_pc[c] = "text_extracted"
    /\ call_dp' = [call_dp EXCEPT ![c] = FilledTable(call_seq1[c], call_seq2[c])]
    /\ call_alignment' = [call_alignment EXCEPT ![c] = <<>>]
    /\ call_i' = [call_i EXCEPT ![c] = Len(call_seq1[c])]
    /\ call_j' = [call_j EXCEPT ![c] = Len(call_seq2[c])]
    /\ call_pc' = [call_pc EXCEPT ![c] = "traceback"]
    /\ UNCHANGED <<keep_stress, keep_length, normVars, simVars, alignVars,
                   arpaVars, trackVars, call_audio_ipa, call_text_ipa,
                   call_seq1, call_seq2, apiVars>>

\* one iteration of "while i > 0 or j > 0" in the call of c
CallTraceback(c) ==
    /\ call_pc[c] = "traceback"
    /\ ~(call_i[c] = 0 /\ call_j[c] = 0)
    /\ LET step == TracebackStep(call_dp[c], call_seq1[c], call_seq2[c],
                                 call_i[c], call_j[c])
       IN /\ call_alignment' = AppendTo(call_alignment, c, step.ops)
          /\ call_i' = [call_i EXCEPT ![c] = step.i]
          /\ call_j' = [call_j EXCEPT ![c] = step.j]
    /\ UNCHANGED <<keep_stress, keep_length, normVars, simVars, alignVars,
                   arpaVars, trackVars, call_pc, call_audio_ipa, call_text_ipa,
                   call_seq1, call_seq2, call_dp, apiVars>>

\* the loop of c ends: its list is reversed and returned
CallReturn(c) ==
    /\ call_pc[c] = "traceback"
    /\ call_i[c] = 0 /\ call_j[c] = 0
    /\ call_alignment' = [call_alignment EXCEPT ![c] = Reversed(call_alignment[c])]
    /\ call_pc' = [call_pc EXCEPT ![c] = "done"]
    /\ UNCHANGED <<keep_stress, keep_length, normVars, simVars, alignVars,
                   arpaVars, trackVars, call_audio_ipa, call_text_ipa,
                   call_seq1, call_seq2, call_dp, call_i, call_j, apiVars>>

CallNext ==
    \E c \in Callers :
       \/ CallAlign(c)
       \/ CallExtractAudio(c)
       \/ CallExtractText(c)
       \/ CallFillTable(c)
       \/ CallTraceback(c)
       \/ CallReturn(c)

SpecCall == CallInit /\ [][CallNext]_vars

\* C25: however the steps of the align calls on one shared aligner
\* interleave, a call that has returned holds the list that align returns
\* for its own two arguments when run alone; no step writes a field of the
\* shared instance; and the list a call has returned is changed by no step
\* of another call.
CallersIndependent ==
    /\ [](\A c \in Callers :
             call_pc[c] = "done" =>
                call_alignment[c] = align(call_audio_ipa[c], call_text_ipa[c],
                                          keep_stress, keep_length))
    /\ [][/\ keep_stress' = keep_stress
          /\ keep_length' = keep_length
          /\ \A c \in Callers :
                call_pc[c] = "done" => call_alignment'[c] = call_alignment[c]]_vars

\* the first caller has returned [k -> g substitute, a inserted] while the
\* second caller, given other arguments, is inside its traceback loop
CallersIndependentWitness ==
    /\ call_pc["first"] = "done"
    /\ call_audio_ipa["first"] = <<"g", "a">>
    /\ call_text_ipa["first"] = <<"k">>
    /\ Len(call_alignment["first"]) = 2
    /\ call_pc["second"] = "traceback"
    /\ call_audio_ipa["second"] = <<"stress1", "k">>
    /\ call_text_ipa["second"] = <<"g", "a">>
    /\ call_alignment["second"] # <<>>
    /\ call_i["second"] + call_j["second"] > 0

(***************************************************************************)
(* SpecApi: api/routes.py.  load_models constructs the globals in order,   *)
(* and a constructor that raises leaves the later ones None.  A request to *)
(* analyze_pronunciation passes through the steps of the handler; each     *)
(* call it makes returns or raises one of ExceptionKinds.  Of a response,  *)
(* the message, the audio quality and the processing time are left out.    *)
(***************************************************************************)
\* the globals in the order load_models assigns them
LoadOrder ==
    <<"whisper_converter", "gruut_converter", "aligner", "audio_fetcher",
      "stt_transcriber">>

\* a global after load_models has completed its first count constructors
Loaded(name, count, before) ==
    IF \E k \in 1..count : LoadOrder[k] = name THEN "loaded" ELSE before

\* subclasses of Exception the calls of the handler raise: the two of httpx
\* it names, ValueError and pydantic's ValidationError (a ValueError), and
\* two others
ExceptionKinds ==
    {"HTTPStatusError", "RequestError", "ValueError", "ValidationError",
     "RuntimeError", "AttributeError"}

ValueErrors == {"ValueError", "ValidationError"}

\* the IPA strings the two converters return
ApiStrings == {<<>>, <<"k">>, <<"g", "a">>, <<"stress1", "k">>, <<"dash">>}

ErrorResponse(code, retryable) ==
    [status |-> "error",
     analysis |-> None,
     error |-> [code |-> code, retryable |-> retryable]]

\* the except clauses around fetch_and_load: the response returned, or None
\* when the exception passes on to the outer try
InnerExcept(kind) ==
    IF kind \in {"HTTPStatusError", "RequestError"}
    THEN ErrorResponse("AUDIO_DOWNLOAD_FAILED", TRUE)
    ELSE None

\* the outer try with its "except ValueError" clause alone
OuterExceptValueErrorOnly(kind) ==
    IF kind \in ValueErrors
    THEN ErrorResponse("PROCESSING_ERROR", FALSE)
    ELSE None

\* the except clauses of the outer try: the response returned, or None when
\* the exception leaves the handler
OuterExcept(kind) ==
    IF kind \in ValueErrors
    THEN ErrorResponse("PROCESSING_ERROR", FALSE)
    ELSE IF kind \in ExceptionKinds
    THEN ErrorResponse("INTERNAL_ERROR", TRUE)
    ELSE None

\* sum(1 for _, _, t in alignment if t == type)
CountType(ops, type) ==
    Cardinality({k \in 1..Len(ops) : ops[k][3] = type})

\* the success response built from an alignment
SuccessResponse(audio, expected, ops) ==
    [status |-> "success",
     analysis |->
        [audio_ipa |-> audio,
         expected_ipa |-> expected,
         phoneme_count |-> Len(ops),
         match_count |-> CountType(ops, "match"),
         substitution_count |-> CountType(ops, "substitute"),
         deletion_count |-> CountType(ops, "delete"),
         insertion_count |-> CountType(ops, "insert"),
         phoneme_details |->
            [k \in 1..Len(ops) |->
                [expected |-> ops[k][1], actual |-> ops[k][2],
                 type |-> ops[k][3], position |-> k - 1]]],
     error |-> None]

ApiInit ==
    /\ keep_stress = TRUE
    /\ keep_length = TRUE
    /\ NormIdle
    /\ SimIdle
    /\ AlignIdle
    /\ ArpaIdle
    /\ TrackIdle
    /\ CallIdle
    /\ ApiIdle

\* load_models(): count constructors complete, the next one (if any) raises
LoadModels ==
    /\ whisper_converter = "None"
    /\ \E count \in 0..Len(LoadOrder) :
          /\ whisper_converter' = Loaded("whisper_converter", count, whisper_converter)
          /\ gruut_converter' = Loaded("gruut_converter", count, gruut_converter)
          /\ aligner' = Loaded("aligner", count, aligner)
          /\ audio_fetcher' = Loaded("audio_fetcher", count, audio_fetcher)
          /\ stt_transcriber' = Loaded("stt_transcriber", count, stt_transcriber)
    /\ UNCHANGED <<keep_stress, keep_length, normVars, simVars, alignVars,
                   arpaVars, trackVars, callVars, hpc, fetched_ipa,
                   expected_ipa, response>>

\* the handler leaves with a response, or with an exception when there is
\* none
Leave(result) ==
    /\ response' = result
    /\ hpc' = IF result = None THEN "raised" ELSE "returned"

\* a request arrives
Request ==
    /\ hpc \in {"idle", "returned"}
    /\ hpc' = "entered"
    /\ fetched_ipa' = <<>>
    /\ expected_ipa' = <<>>
    /\ response' = None
    /\ UNCHANGED <<keep_stress, keep_length, normVars, simVars, alignVars,
                   arpaVars, trackVars, callVars, whisper_converter,
                   gruut_converter, aligner, audio_fetcher, stt_transcriber>>

\* if not get_models_loaded(): return the MODELS_NOT_LOADED error
CheckModels ==
    /\ hpc = "entered"
    /\ IF whisper_converter = "None"
       THEN Leave(ErrorResponse("MODELS_NOT_LOADED", TRUE))
       ELSE hpc' = "fetch" /\ response' = response
    /\ UNCHANGED <<keep_stress, keep_length, normVars, simVars, alignVars,
                   arpaVars, trackVars, callVars, whisper_converter,
                   gruut_converter, aligner, audio_fetcher, stt_transcriber,
                   fetched_ipa, expected_ipa>>

\* 1. await audio_fetcher.fetch_and_load(...) inside the inner try
FetchAudio ==
    /\ hpc = "fetch"
    /\ \/ /\ audio_fetcher = "None"
          /\ Leave(OuterExcept("AttributeError"))
       \/ /\ audio_fetcher # "None"
          /\ hpc' = "audio_to_ipa"
          /\ response' = response
       \/ /\ audio_fetcher # "None"
          /\ \E kind \in ExceptionKinds :
                Leave(IF InnerExcept(kind) # None
                      THEN InnerExcept(kind)
                      ELSE OuterExcept(kind))
    /\ UNCHANGED <<keep_stress, keep_length, normVars, simVars, alignVars,
                   arpaVars, trackVars, callVars, whisper_converter,
                   gruut_converter, aligner, audio_fetcher, stt_transcriber,
                   fetched_ipa, expected_ipa>>

\* 2. audio_ipa = whisper_converter.audio_to_ipa(...)
AudioToIpa ==
    /\ hpc = "audio_to_ipa"
    /\ \/ /\ \E result \in ApiStrings : fetched_ipa' = result
          /\ hpc' = "text_to_ipa"
          /\ response' = response
       \/ /\ \E kind \in ExceptionKinds : Leave(OuterExcept(kind))
          /\ fetched_ipa' = fetched_ipa
    /\ UNCHANGED <<keep_stress, keep_length, normVars, simVars, alignVars,
                   arpaVars, trackVars, callVars, whisper_converter,
                   gruut_converter, aligner, audio_fetcher, stt_transcriber,
                   expected_ipa>>

\* 3. expected_ipa = text_converter.text_to_ipa(request.expected_text)
TextToIpa ==
    /\ hpc = "text_to_ipa"
    /\ \/ /\ gruut_converter = "None"
          /\ Leave(OuterExcept("AttributeError"))
          /\ expected_ipa' = expected_ipa
       \/ /\ gruut_converter # "None"
          /\ \E result \in ApiStrings : expected_ipa' = result
          /\ hpc' = "align"
          /\ response' = response
       \/ /\ gruut_converter # "None"
          /\ \E kind \in ExceptionKinds : Leave(OuterExcept(kind))
          /\ expected_ipa' = expected_ipa
    /\ UNCHANGED <<keep_stress, keep_length, normVars, simVars, alignVars,
                   arpaVars, trackVars, callVars, whisper_converter,
                   gruut_converter, aligner, audio_fetcher, stt_transcriber,
                   fetched_ipa>>

\* 4. to the end: the alignment, the counts, the details and the response;
\* building the pydantic models may raise a ValidationError
AlignAndRespond ==
    /\ hpc = "align"
    /\ \/ /\ aligner = "None"
          /\ Leave(OuterExcept("AttributeError"))
       \/ /\ aligner # "None"
          /\ Leave(SuccessResponse(fetched_ipa, expected_ipa,
                                   align(fetched_ipa, expected_ipa, TRUE, TRUE)))
       \/ /\ aligner # "None"
          /\ Leave(OuterExcept("ValidationError"))
    /\ UNCHANGED <<keep_stress, keep_length, normVars, simVars, alignVars,
                   arpaVars, trackVars, callVars, whisper_converter,
                   gruut_converter, aligner, audio_fetcher, stt_transcriber,
                   fetched_ipa, expected_ipa>>

ApiNext ==
    \/ LoadModels
    \/ Request
    \/ CheckModels
    \/ FetchAudio
    \/ AudioToIpa
    \/ TextToIpa
    \/ AlignAndRespond

SpecApi == ApiInit /\ [][ApiNext]_vars

\* C30: whatever the calls of the handler do, it leaves with a response and
\* with no exception; the response is a success with an analysis and no
\* error, or an error with an error and no analysis; while the models are
\* not loaded it is the error MODELS_NOT_LOADED, retryable; and in a
\* success phoneme_count is the sum of the four counts and the length of
\* phoneme_details.
ResponseConsistent ==
    /\ hpc # "raised"
    /\ hpc = "returned" =>
          /\ response # None
          /\ \/ /\ response.status = "success"
                /\ response.analysis # None
                /\ response.error = None
             \/ /\ response.status = "error"
                /\ response.error # None
                /\ response.analysis = None
          /\ whisper_converter = "None" =>
                /\ response.status = "error"
                /\ response.error.code = "MODELS_NOT_LOADED"
                /\ response.error.retryable = TRUE
          /\ response.status = "success" =>
                LET a == response.analysis
                IN /\ a.phoneme_count = a.match_count + a.substitution_count
                                        + a.deletion_count + a.insertion_count
                   /\ a.phoneme_count = Len(a.phoneme_details)

\* a success for audio 'ga' against text 'k': one substitution, one insert
ResponseConsistentWitness ==
    /\ hpc = "returned"
    /\ response.status = "success"
    /\ response.analysis.audio_ipa = <<"g", "a">>
    /\ response.analysis.expected_ipa = <<"k">>
    /\ response.analysis.phoneme_count = 2
    /\ response.analysis.substitution_count = 1
    /\ response.analysis.insertion_count = 1

====
